---------------------------- MODULE Spec2Model ----------------------------
(***************************************************************************)
(* Model of the WOF hierarchy generators of real-estate-microtrends-data.  *)
(* The repository holds six near-duplicate scripts; the ones modelled are  *)
(*   V1  src/unnamed/part_000 lines 1-242   (local scan, GitHub puts,      *)
(*       per-node PQueue recursion)                                        *)
(*   V2  src/unnamed/part_000 lines 244-565 (admin repos, stack walk)      *)
(*   V3  src/unnamed/part_001               (transition table, visited     *)
(*       set, batch commits)                                               *)
(*   V4  src/repo/wof_create_folders.js lines 1-225 (local build)          *)
(* Every variant reads the same raw documents (GeoJSON features with the   *)
(* wof:* property keys), so one pool of documents feeds all of them.       *)
(***************************************************************************)
EXTENDS Integers, Sequences, FiniteSets, TLC

(***************************************************************************)
(* Bounds of the model.                                                    *)
(***************************************************************************)
MaxDocs == 3
MaxDepth == 4

(***************************************************************************)
(* JavaScript values.  A value is a record with one field naming its type: *)
(* [num |-> n], [str |-> <<chars>>], [undef |-> TRUE], [null |-> TRUE].    *)
(* Strings that are sanitized or concatenated are sequences of characters  *)
(* (one-character strings); U+00E3 and U+0303 stand for the precomposed    *)
(* "a with tilde" and the combining tilde.                                 *)
(***************************************************************************)
Undefined == [undef |-> TRUE]
Null == [null |-> TRUE]
Num(n) == [num |-> n]
Str(s) == [str |-> s]

IsUndef(v) == "undef" \in DOMAIN v
IsNull(v) == "null" \in DOMAIN v
IsNum(v) == "num" \in DOMAIN v
IsStr(v) == "str" \in DOMAIN v

\* JavaScript truthiness: undefined, null, 0 and "" are falsy; an object is truthy.
Truthy(v) ==
  IF IsNum(v) THEN v.num # 0
  ELSE IF IsStr(v) THEN v.str # <<>>
  ELSE ~(IsUndef(v) \/ IsNull(v))

\* a || b
JsOr(a, b) == IF Truthy(a) THEN a ELSE b

Digit(d) == <<"0", "1", "2", "3", "4", "5", "6", "7", "8", "9">>[d + 1]

RECURSIVE Digits(_)
Digits(n) == IF n < 10 THEN <<Digit(n)>> ELSE Digits(n \div 10) \o <<Digit(n % 10)>>

\* String(v): the decimal digits of a number, "undefined", "null", or the
\* string itself.
JsString(v) ==
  IF IsNum(v) THEN (IF v.num < 0 THEN <<"-">> \o Digits(-v.num) ELSE Digits(v.num))
  ELSE IF IsStr(v) THEN v.str
  ELSE IF IsNull(v) THEN <<"n", "u", "l", "l">>
  ELSE <<"u", "n", "d", "e", "f", "i", "n", "e", "d">>

(***************************************************************************)
(* Character classes of the regular expressions the sanitizers use.        *)
(***************************************************************************)
Letters ==
  {"A", "B", "C", "D", "E", "F", "G", "H", "I", "J", "K", "L", "M",
   "N", "O", "P", "Q", "R", "S", "T", "U", "V", "W", "X", "Y", "Z",
   "a", "b", "c", "d", "e", "f", "g", "h", "i", "j", "k", "l", "m",
   "n", "o", "p", "q", "r", "s", "t", "u", "v", "w", "x", "y", "z"}
DigitChars == {"0", "1", "2", "3", "4", "5", "6", "7", "8", "9"}

\* \w
IsWord(c) == c \in Letters \cup DigitChars \cup {"_"}
\* \s
IsSpace(c) == c \in {" ", "\t", "\n"}
\* [\/:*?"<>|\\'#%]
IsIllegal(c) == c \in {"/", ":", "*", "?", "\"", "<", ">", "|", "\\", "'", "#", "%"}
IsUnderscore(c) == c = "_"

\* String.prototype.normalize("NFKD"), on the characters of the model.
RECURSIVE NFKD(_)
NFKD(s) ==
  IF s = <<>> THEN <<>>
  ELSE (IF Head(s) = "U+00E3" THEN <<"a", "U+0303">> ELSE <<Head(s)>>) \o NFKD(Tail(s))

\* replace(/[^\w\s-]/g, "")
RECURSIVE StripNonWord(_)
StripNonWord(s) ==
  IF s = <<>> THEN <<>>
  ELSE (IF IsWord(Head(s)) \/ IsSpace(Head(s)) \/ Head(s) = "-" THEN <<Head(s)>> ELSE <<>>)
       \o StripNonWord(Tail(s))

\* replace(/[\/:*?"<>|\\'#%]/g, "_")
RECURSIVE ReplaceIllegal(_)
ReplaceIllegal(s) ==
  IF s = <<>> THEN <<>>
  ELSE <<IF IsIllegal(Head(s)) THEN "_" ELSE Head(s)>> \o ReplaceIllegal(Tail(s))

\* replace(/\s+/g, "_"): every maximal run of whitespace becomes one "_".
RECURSIVE CollapseSpace(_)
CollapseSpace(s) ==
  IF s = <<>> THEN <<>>
  ELSE IF IsSpace(Head(s))
       THEN IF Tail(s) # <<>> /\ IsSpace(Head(Tail(s)))
            THEN CollapseSpace(Tail(s))
            ELSE <<"_">> \o CollapseSpace(Tail(s))
       ELSE <<Head(s)>> \o CollapseSpace(Tail(s))

\* replace(/_+/g, "_"): every maximal run of "_" becomes one "_".
RECURSIVE CollapseUnderscore(_)
CollapseUnderscore(s) ==
  IF s = <<>> THEN <<>>
  ELSE IF IsUnderscore(Head(s)) /\ Tail(s) # <<>> /\ IsUnderscore(Head(Tail(s)))
       THEN CollapseUnderscore(Tail(s))
       ELSE <<Head(s)>> \o CollapseUnderscore(Tail(s))

RECURSIVE TrimStart(_)
TrimStart(s) == IF s # <<>> /\ IsSpace(Head(s)) THEN TrimStart(Tail(s)) ELSE s

RECURSIVE TrimEnd(_)
TrimEnd(s) ==
  IF s # <<>> /\ IsSpace(s[Len(s)]) THEN TrimEnd(SubSeq(s, 1, Len(s) - 1)) ELSE s

\* String.prototype.trim()
Trim(s) == TrimEnd(TrimStart(s))

Unnamed == <<"u", "n", "n", "a", "m", "e", "d">>

\* V3 sanitize(name): (name || "unnamed"), NFKD, strip, whitespace to "_", trim.
sanitizeV3(name) ==
  Trim(CollapseSpace(StripNonWord(NFKD(JsOr(name, Str(Unnamed)).str))))

\* V1 sanitizeSegment(name) and V2 sanitize(s).
sanitizeSegment(name) ==
  IF ~Truthy(name) THEN Unnamed
  ELSE Trim(CollapseUnderscore(CollapseSpace(ReplaceIllegal(NFKD(JsString(name))))))


(***************************************************************************)
(* Raw documents.  A document is what JSON.parse / axios returns for one   *)
(* file: an object whose "properties" hold the wof:* keys, or an object    *)
(* without properties.  Placetypes are only ever compared for equality, so *)
(* they are atomic strings ("undefined" when the key is missing).          *)
(***************************************************************************)
Feature(id, name, placetype, parent) ==
  [properties |-> [wof_id |-> id, wof_name |-> name,
                   wof_placetype |-> placetype, wof_parent_id |-> parent]]

Testland == <<"T", "e", "s", "t", "l", "a", "n", "d">>
North == <<"N", "o", "r", "t", "h">>
Northtown == <<"N", "o", "r", "t", "h", "t", "o", "w", "n">>
South == <<"S", "o", "u", "t", "h">>
OldTown == <<"O", "l", "d", " ", "T", "o", "w", "n">>
Exland == <<"E", "x", "l", "a", "n", "d">>

dCountry == Feature(Num(1), Str(Testland), "country", Undefined)
dRegion == Feature(Num(2), Str(North), "region", Num(1))
dLocality == Feature(Num(3), Str(Northtown), "locality", Num(2))
\* a second locality of region 2
dLocality2 == Feature(Num(6), Str(OldTown), "locality", Num(2))
\* a locality directly under the country (skipping region)
dSkip == Feature(Num(3), Str(OldTown), "locality", Num(1))
\* country 1 pointing back to region 2: with dRegion the parent pointers cycle
dCycle == Feature(Num(1), Str(Testland), "country", Num(2))
\* a second record of id 2
dDup == Feature(Num(2), Str(South), "region", Num(1))
\* a country whose parent is another country
dCountry2 == Feature(Num(4), Str(Exland), "country", Num(1))
\* no wof:id and no wof:name
dNoId == Feature(Undefined, Undefined, "country", Undefined)
\* a placetype outside the allow-set of V3
dCounty == Feature(Num(5), Str(South), "county", Num(1))
\* a region whose parent id is not in the data (dangling)
dDangling == Feature(Num(7), Str(South), "region", Num(9))
\* an object with no properties
dNoProps == [properties |-> Undefined]
\* a neighbourhood of locality 3 and a microhood of that neighbourhood
dNeighbourhood == Feature(Num(10), Str(OldTown), "neighbourhood", Num(3))
dMicrohood == Feature(Num(11), Str(South), "microhood", Num(10))

DocPool ==
  {dCountry, dRegion, dLocality, dLocality2, dSkip, dCycle, dDup, dCountry2,
   dNoId, dCounty, dDangling, dNoProps, dNeighbourhood, dMicrohood}

\* All sequences over S of length at most n.
SeqsUpTo(S, n) == UNION {[1..k -> S] : k \in 0..n}

(***************************************************************************)
(* State.                                                                  *)
(***************************************************************************)
VARIABLES
  docs,         \* the raw documents of the data source, in file order
  pc,           \* position of main
  fi,           \* index of the next file to read
  records,      \* the record objects, in creation order (an index is an object identity)
  roots,        \* the root objects main iterates over
  ri,           \* index of the next root
  stack,        \* the pending createTree / walk frames
  visited,      \* the visited-id set of the current createTree walk (V3)
  events,       \* history: the folder and leaf events emitted so far
  pendingTree,  \* V3 batch engine: items not yet committed
  commits,      \* V3 batch engine: the commits made
  lastRepo,     \* V3 checkpoint file
  tasks,        \* V1: the recurseCreate invocations, in creation order
  ghQueue,      \* V1: the jobs of ghQueue in the order they were added
  mstate,       \* V1: where main is waiting
  run,          \* V1: 1 in the first execution, 2 in a repeated one
  firstEvents,  \* V1: the events of the first execution, once it is repeated
  index,        \* V5 runParallel: the next index to hand out
  completed,    \* V5 runParallel: the number of handler calls that returned
  workers,      \* V5 runParallel: the state of each worker
  created,      \* V5: the folders that hold leaf files
  input,        \* a sanitizer call: the name passed
  segment,      \* a sanitizer call: the sanitizer called and what it returned
  config,       \* the placetype table in force (PLACETYPE_CHAIN of part_001)
  adminRepos,   \* a run over several repositories: the filtered listing
  checkpoint,   \* V3: lastRepo of the checkpoint main loaded
  skip,         \* V3: the skip flag of main
  progress,     \* V4/V6: the progress object, as saved in the progress file
  complete      \* V4/V6: the indices of the repositories whose tree is complete

v1vars == <<tasks, ghQueue, mstate, run, firstEvents>>

others == <<index, completed, workers, created, input, segment, config>>

repovars == <<adminRepos, checkpoint, skip, progress, complete>>

vars == <<docs, pc, fi, records, roots, ri, stack, visited, events,
          pendingTree, commits, lastRepo, tasks, ghQueue, mstate, run, firstEvents,
          index, completed, workers, created, input, segment, config,
          adminRepos, checkpoint, skip, progress, complete>>

\* the variables of a run over several repositories, in a run over one
ReposUnused ==
  /\ adminRepos = <<>>
  /\ checkpoint = Null
  /\ skip = FALSE
  /\ progress = [repo_index |-> 0, file_index |-> 0]
  /\ complete = {}

\* the V1 variables of a script that is not V1
V1Unused ==
  /\ tasks = <<>>
  /\ ghQueue = <<>>
  /\ mstate = [st |-> "none"]
  /\ run = 1
  /\ firstEvents = <<>>

(***************************************************************************)
(* V3 (src/unnamed/part_001).                                              *)
(***************************************************************************)
BATCH_LIMIT == 500
ROOT == <<"r", "e", "a", "l", "-", "e", "s", "t", "a", "t", "e">>
RepoName == "whosonfirst-data-admin-xx"

PLACETYPE_CHAIN ==
  [country |-> {"region"}, region |-> {"locality"},
   locality |-> {"neighbourhood"}, neighbourhood |-> {"microhood"}]

ALLOWED == DOMAIN PLACETYPE_CHAIN

\* the variables of the parallel runner and of a sanitizer call, elsewhere
OthersUnused ==
  /\ index = 0
  /\ completed = 0
  /\ workers = <<>>
  /\ created = {}
  /\ input = Null
  /\ segment = Null
  /\ config = PLACETYPE_CHAIN

\* parseRecord(obj): Null, or the record {id, name, placetype, parent, children: []}.
parseRecord(obj) ==
  LET p == obj.properties IN
  IF ~Truthy(p) THEN Null
  ELSE IF p.wof_placetype \notin ALLOWED THEN Null
  ELSE [id |-> JsString(p.wof_id),
        name |-> p.wof_name,
        placetype |-> p.wof_placetype,
        parent |-> JsString(JsOr(p.wof_parent_id, Str(<<>>))),
        children |-> <<>>]

\* map.get(id) after records.forEach(r => map.set(r.id, r)): the last record
\* of that id, 0 when there is none.
MapGet(recs, id) ==
  LET hits == {i \in 1..Len(recs) : recs[i].id = id} IN
  IF hits = {} THEN 0 ELSE CHOOSE i \in hits : \A j \in hits : j <= i

\* [...map.values()]: one object per id (the last record of the id), in the
\* order in which the ids were first inserted.
RECURSIVE MapValuesFrom(_, _)
MapValuesFrom(recs, i) ==
  IF i > Len(recs) THEN <<>>
  ELSE (IF \E j \in 1..(i - 1) : recs[j].id = recs[i].id
        THEN <<>> ELSE <<MapGet(recs, recs[i].id)>>)
       \o MapValuesFrom(recs, i + 1)

MapValues(recs) == MapValuesFrom(recs, 1)

\* the transition test left out, as in buildTree of V4 and V6
TransitionAllowedAny(parentPt, childPt) == TRUE

\* lines 262-265: the parent's placetype has an entry and it lists the child's.

TransitionAllowed(parentPt, childPt) ==
  /\ parentPt \in DOMAIN PLACETYPE_CHAIN
  /\ childPt \in PLACETYPE_CHAIN[parentPt]

\* the linking loop of buildGraph, from record i on
RECURSIVE LinkFrom(_, _)
LinkFrom(recs, i) ==
  IF i > Len(recs) THEN recs
  ELSE LET p == MapGet(recs, recs[i].parent) IN
       IF p # 0 /\ TransitionAllowed(recs[p].placetype, recs[i].placetype)
       THEN LinkFrom([recs EXCEPT ![p].children = Append(@, i)], i + 1)
       ELSE LinkFrom(recs, i + 1)

\* the filter of line 270
IsRootV3(rec) == rec.placetype = "country"

\* buildGraph(records): the linked objects and the returned roots.
buildGraph(recs) ==
  LET linked == LinkFrom(recs, 1) IN
  [records |-> linked,
   roots |-> SelectSeq(MapValues(linked), LAMBDA i : IsRootV3(linked[i]))]

\* the separator left out
JoinPathNoSeparator(base, seg) == base \o seg

\* `${basePath}/${segment}`
JoinPath(base, seg) == base \o <<"/">> \o seg

\* flushBatch(): one commit of everything pending, none when nothing is.
flushBatch(b) ==
  IF Len(b.pending) = 0 THEN b
  ELSE [pending |-> <<>>, commits |-> Append(b.commits, b.pending)]

\* pendingTree.push(...items), then the threshold flush
AddItems(b, items) ==
  LET b2 == [b EXCEPT !.pending = @ \o items] IN
  IF Len(b2.pending) >= BATCH_LIMIT THEN flushBatch(b2) ELSE b2

addFolderNode(b, path) == AddItems(b, <<[path |-> path, file |-> ".keep"]>>)

addLeafFiles(b, path) ==
  AddItems(b, <<[path |-> path, file |-> "buyers.json"],
                [path |-> path, file |-> "properties.json"],
                [path |-> path, file |-> "metadata.json"]>>)

FolderEvent(path, n) == [kind |-> "folder", path |-> path, node |-> n]
LeafEvent(path, n) == [kind |-> "leaf", path |-> path, node |-> n]

InitV3 ==
  /\ docs \in SeqsUpTo(DocPool, MaxDocs)
  /\ pc = "parse"
  /\ fi = 1
  /\ records = <<>>
  /\ roots = <<>>
  /\ ri = 1
  /\ stack = <<>>
  /\ visited = {}
  /\ events = <<>>
  /\ pendingTree = <<>>
  /\ commits = <<>>
  /\ lastRepo = Null
  /\ V1Unused
  /\ OthersUnused
  /\ ReposUnused

\* main, lines 318-324: one file of the repository
V3ParseFile ==
  /\ pc = "parse"
  /\ fi <= Len(docs)
  /\ LET rec == parseRecord(docs[fi]) IN
     records' = IF IsNull(rec) THEN records ELSE Append(records, rec)
  /\ fi' = fi + 1
  /\ UNCHANGED <<docs, pc, roots, ri, stack, visited, events, pendingTree, commits, lastRepo>>
  /\ UNCHANGED v1vars
  /\ UNCHANGED others
  /\ UNCHANGED repovars

\* main, line 326
V3Build ==
  /\ pc = "parse"
  /\ fi > Len(docs)
  /\ LET g == buildGraph(records) IN
     /\ records' = g.records
     /\ roots' = g.roots
  /\ pc' = "walk"
  /\ ri' = 1
  /\ UNCHANGED <<docs, fi, stack, visited, events, pendingTree, commits, lastRepo>>
  /\ UNCHANGED v1vars
  /\ UNCHANGED others
  /\ UNCHANGED repovars

\* createTree(node, basePath, visited), lines 277-287, called with the visited
\* set vis and the frames st of its callers: the state after the call has
\* either returned or entered its loop over node.children.
V3Call(n, base, vis, st) ==
  IF records[n].id \in vis
  THEN [visited |-> vis, stack |-> st, events |-> events,
        batch |-> [pending |-> pendingTree, commits |-> commits]]
  ELSE LET path == JoinPath(base, sanitizeV3(records[n].name))
           b1 == addFolderNode([pending |-> pendingTree, commits |-> commits], path)
       IN IF Len(records[n].children) = 0
          THEN [visited |-> vis \cup {records[n].id}, stack |-> st,
                events |-> events \o <<FolderEvent(path, n), LeafEvent(path, n)>>,
                batch |-> addLeafFiles(b1, path)]
          ELSE [visited |-> vis \cup {records[n].id},
                stack |-> Append(st, [node |-> n, path |-> path, ci |-> 1]),
                events |-> Append(events, FolderEvent(path, n)),
                batch |-> b1]

V3Apply(r) ==
  /\ visited' = r.visited
  /\ stack' = r.stack
  /\ events' = r.events
  /\ pendingTree' = r.batch.pending
  /\ commits' = r.batch.commits

\* main, lines 328-330: createTree(country, ROOT) with a fresh visited set
V3WalkRoot ==
  /\ pc = "walk"
  /\ stack = <<>>
  /\ ri <= Len(roots)
  /\ V3Apply(V3Call(roots[ri], ROOT, {}, <<>>))
  /\ ri' = ri + 1
  /\ UNCHANGED <<docs, pc, fi, records, roots, lastRepo>>
  /\ UNCHANGED v1vars
  /\ UNCHANGED others
  /\ UNCHANGED repovars

\* createTree, lines 289-291: the next child of the innermost call
V3Recurse ==
  /\ pc = "walk"
  /\ stack # <<>>
  /\ LET top == stack[Len(stack)] IN
     /\ top.ci <= Len(records[top.node].children)
     /\ V3Apply(V3Call(records[top.node].children[top.ci], top.path, visited,
                       [stack EXCEPT ![Len(stack)].ci = @ + 1]))
  /\ UNCHANGED <<docs, pc, fi, records, roots, ri, lastRepo>>
  /\ UNCHANGED v1vars
  /\ UNCHANGED others
  /\ UNCHANGED repovars

\* createTree, line 292: the loop is over, the call returns
V3Return ==
  /\ pc = "walk"
  /\ stack # <<>>
  /\ LET top == stack[Len(stack)] IN top.ci > Len(records[top.node].children)
  /\ stack' = SubSeq(stack, 1, Len(stack) - 1)
  /\ UNCHANGED <<docs, pc, fi, records, roots, ri, visited, events, pendingTree, commits, lastRepo>>
  /\ UNCHANGED v1vars
  /\ UNCHANGED others
  /\ UNCHANGED repovars

\* main, line 332
V3SaveCheckpoint ==
  /\ pc = "walk"
  /\ stack = <<>>
  /\ ri > Len(roots)
  /\ lastRepo' = Str(RepoName)
  /\ pc' = "flush"
  /\ UNCHANGED <<docs, fi, records, roots, ri, stack, visited, events, pendingTree, commits>>
  /\ UNCHANGED v1vars
  /\ UNCHANGED others
  /\ UNCHANGED repovars

\* main, line 338
V3FinalFlush ==
  /\ pc = "flush"
  /\ LET b == flushBatch([pending |-> pendingTree, commits |-> commits]) IN
     /\ pendingTree' = b.pending
     /\ commits' = b.commits
  /\ pc' = "done"
  /\ UNCHANGED <<docs, fi, records, roots, ri, stack, visited, events, lastRepo>>
  /\ UNCHANGED v1vars
  /\ UNCHANGED others
  /\ UNCHANGED repovars

NextV3 ==
  \/ V3ParseFile
  \/ V3Build
  \/ V3WalkRoot
  \/ V3Recurse
  \/ V3Return
  \/ V3SaveCheckpoint
  \/ V3FinalFlush

SpecV3 == InitV3 /\ [][NextV3]_vars

(***************************************************************************)
(* V4 (src/repo/wof_create_folders.js, lines 1-225): the tree is built on  *)
(* the local file system; a folder event is ensureDir(p), a leaf event is  *)
(* ensureLeafRealEstate(p).  The progress file is not part of this model.  *)
(***************************************************************************)
GEOROOT ==
  <<"g", "e", "o", "l", "o", "c", "a", "t", "i", "o", "n", "s", "/", "X", "X">>

\* parseRecord(obj) of V4, behind the guard of line 184
parseRecordV4(obj) ==
  LET p == obj.properties IN
  IF ~(p.wof_placetype \in {"country", "region", "locality", "neighbourhood", "microhood"})
  THEN Null
  ELSE [id |-> JsString(p.wof_id),
        name |-> JsOr(p.wof_name, Null),
        placetype |-> p.wof_placetype,
        parent |-> JsString(JsOr(p.wof_parent_id, Str(<<>>))),
        children |-> <<>>]

\* the second forEach of buildTree: every record joins the children of the
\* node its parent id resolves to
RECURSIVE LinkAllFrom(_, _)
LinkAllFrom(recs, i) ==
  IF i > Len(recs) THEN recs
  ELSE LET p == MapGet(recs, recs[i].parent) IN
       IF p # 0
       THEN LinkAllFrom([recs EXCEPT ![p].children = Append(@, i)], i + 1)
       ELSE LinkAllFrom(recs, i + 1)

buildTreeV4(recs) ==
  LET linked == LinkAllFrom(recs, 1) IN
  [records |-> linked,
   roots |-> SelectSeq(MapValues(linked), LAMBDA i : linked[i].placetype = "country")]

\* V4 sanitize(s): no fallback, s.normalize throws on null
sanitizeV4(s) == Trim(CollapseSpace(StripNonWord(NFKD(s.str))))

\* path.join(base, seg): an empty segment adds nothing
PathJoin(base, seg) == IF seg = <<>> THEN base ELSE base \o <<"/">> \o seg

InitV4 ==
  /\ docs \in SeqsUpTo(DocPool, MaxDocs)
  /\ pc = "parse"
  /\ fi = 1
  /\ records = <<>>
  /\ roots = <<>>
  /\ ri = 1
  /\ stack = <<>>
  /\ visited = {}
  /\ events = <<>>
  /\ pendingTree = <<>>
  /\ commits = <<>>
  /\ lastRepo = Null
  /\ V1Unused
  /\ OthersUnused
  /\ ReposUnused

\* processRepo, lines 178-190: one file
V4ParseFile ==
  /\ pc = "parse"
  /\ fi <= Len(docs)
  /\ LET raw == docs[fi] IN
     records' =
       IF ~Truthy(raw.properties) THEN records
       ELSE LET rec == parseRecordV4(raw) IN
            IF IsNull(rec) THEN records ELSE Append(records, rec)
  /\ fi' = fi + 1
  /\ UNCHANGED <<docs, pc, roots, ri, stack, visited, events, pendingTree, commits, lastRepo>>
  /\ UNCHANGED v1vars
  /\ UNCHANGED others
  /\ UNCHANGED repovars

\* processRepo, lines 192-194
V4Build ==
  /\ pc = "parse"
  /\ fi > Len(docs)
  /\ IF Len(records) = 0
     THEN pc' = "done" /\ UNCHANGED <<records, roots>>
     ELSE /\ LET g == buildTreeV4(records) IN
             /\ records' = g.records
             /\ roots' = g.roots
          /\ pc' = "walk"
  /\ ri' = 1
  /\ UNCHANGED <<docs, fi, stack, visited, events, pendingTree, commits, lastRepo>>
  /\ UNCHANGED v1vars
  /\ UNCHANGED others
  /\ UNCHANGED repovars

\* createTree(node, basePath), lines 150-157, called under the frames st: the
\* call throws (sanitize of a null name), returns (a leaf) or enters its loop.
V4Call(n, base, st) ==
  IF ~IsStr(records[n].name)
  THEN [pc |-> "failed", stack |-> <<>>, events |-> events]
  ELSE LET p == PathJoin(base, sanitizeV4(records[n].name)) IN
       IF Len(records[n].children) = 0
       THEN [pc |-> "walk", stack |-> st,
             events |-> events \o <<FolderEvent(p, n), LeafEvent(p, n)>>]
       ELSE [pc |-> "walk",
             stack |-> Append(st, [node |-> n, path |-> p, ci |-> 1]),
             events |-> Append(events, FolderEvent(p, n))]

V4Apply(r) ==
  /\ pc' = r.pc
  /\ stack' = r.stack
  /\ events' = r.events

\* processRepo, lines 196-200
V4WalkRoot ==
  /\ pc = "walk"
  /\ stack = <<>>
  /\ ri <= Len(roots)
  /\ V4Apply(V4Call(roots[ri], GEOROOT, <<>>))
  /\ ri' = ri + 1
  /\ UNCHANGED <<docs, fi, records, roots, visited, pendingTree, commits, lastRepo>>
  /\ UNCHANGED v1vars
  /\ UNCHANGED others
  /\ UNCHANGED repovars

\* createTree, lines 159-161: the next child.  The recursion has no bound in
\* the code; the model stops at MaxDepth nested calls.
V4Recurse ==
  /\ pc = "walk"
  /\ stack # <<>>
  /\ Len(stack) < MaxDepth
  /\ LET top == stack[Len(stack)] IN
     /\ top.ci <= Len(records[top.node].children)
     /\ V4Apply(V4Call(records[top.node].children[top.ci], top.path,
                       [stack EXCEPT ![Len(stack)].ci = @ + 1]))
  /\ UNCHANGED <<docs, fi, records, roots, ri, visited, pendingTree, commits, lastRepo>>
  /\ UNCHANGED v1vars
  /\ UNCHANGED others
  /\ UNCHANGED repovars

\* createTree, line 162
V4Return ==
  /\ pc = "walk"
  /\ stack # <<>>
  /\ LET top == stack[Len(stack)] IN top.ci > Len(records[top.node].children)
  /\ stack' = SubSeq(stack, 1, Len(stack) - 1)
  /\ UNCHANGED <<docs, pc, fi, records, roots, ri, visited, events, pendingTree, commits, lastRepo>>
  /\ UNCHANGED v1vars
  /\ UNCHANGED others
  /\ UNCHANGED repovars

\* processRepo, lines 202-204
V4Done ==
  /\ pc = "walk"
  /\ stack = <<>>
  /\ ri > Len(roots)
  /\ pc' = "done"
  /\ UNCHANGED <<docs, fi, records, roots, ri, stack, visited, events, pendingTree, commits, lastRepo>>
  /\ UNCHANGED v1vars
  /\ UNCHANGED others
  /\ UNCHANGED repovars

NextV4 ==
  \/ V4ParseFile
  \/ V4Build
  \/ V4WalkRoot
  \/ V4Recurse
  \/ V4Return
  \/ V4Done

SpecV4 == InitV4 /\ [][NextV4]_vars

(***************************************************************************)
(* V2 (src/unnamed/part_000, lines 244-565): one admin repository, GitHub  *)
(* puts issued one after the other; a folder event is                      *)
(* createFolderPlaceholder(path), a leaf event is createLeafFiles(path).   *)
(* githubPutFile catches every failure and its result is ignored, so a     *)
(* failed put changes nothing the script later reads.                      *)
(***************************************************************************)
TARGET_DIR == <<"d", "a", "t", "a", "/", "w", "o", "f">>
RepoNameChars ==
  <<"w", "h", "o", "s", "o", "n", "f", "i", "r", "s", "t", "-", "d", "a", "t", "a",
    "-", "a", "d", "m", "i", "n", "-", "x", "x">>

\* props[key]: undefined when the object has no such key
Prop(props, key) == IF key \in DOMAIN props THEN props[key] ELSE Undefined

\* a region of country 1 that names its parent under wof:belongsto only
dBelongsTo ==
  [properties |-> [wof_id |-> Num(12), wof_name |-> Str(South),
                   wof_placetype |-> "region", wof_parent_id |-> Undefined,
                   wof_belongsto |-> Num(1)]]
\* a region of country 1 that names its parent under parent_id only
dParentId ==
  [properties |-> [wof_id |-> Num(13), wof_name |-> Str(Exland),
                   wof_placetype |-> "region", wof_parent_id |-> Undefined,
                   parent_id |-> Num(1)]]

V2Pool == DocPool \cup {dBelongsTo, dParentId}

\* parseWofRecord(obj), lines 403-419, for an object (obj.properties || obj;
\* a document of the model without properties has no key at all).  The
\* constants id, parent and admin_level of lines 406-409 are not returned:
\* parent_id is read from wof:parent_id alone.
parseWofRecord(obj) ==
  LET props == IF Truthy(obj.properties) THEN obj.properties ELSE [none |-> Undefined]
      name == JsOr(Prop(props, "wof_name"),
                   JsOr(Prop(props, "properties_fullname"), Prop(props, "name")))
  IN [id |-> JsOr(JsOr(Prop(props, "wof_id"), Prop(props, "id")), Null),
      wof_id |-> JsOr(JsOr(Prop(props, "wof_id"), Prop(props, "id")), Null),
      name |-> JsOr(name, Null),
      parent_id |-> JsOr(Prop(props, "wof_parent_id"), Null)]

\* buildHierarchy(records), first loop: one new node per id, in the order in
\* which the ids were first set, holding the last record of the id
hierarchyNodes(recs) ==
  LET keyed == [i \in 1..Len(recs) |->
                  [id |-> JsString(recs[i].wof_id),
                   name |-> recs[i].name,
                   parent |-> JsString(JsOr(recs[i].parent_id, Str(<<>>))),
                   children |-> <<>>]]
      order == MapValues(keyed)
  IN [k \in 1..Len(order) |-> keyed[order[k]]]

\* buildHierarchy(records), second loop, from node i on
RECURSIVE AttachFrom(_, _)
AttachFrom(nodes, i) ==
  IF i > Len(nodes) THEN nodes
  ELSE LET p == MapGet(nodes, nodes[i].parent) IN
       IF nodes[i].parent # <<>> /\ p # 0
       THEN AttachFrom([nodes EXCEPT ![p].children = Append(@, i)], i + 1)
       ELSE AttachFrom(nodes, i + 1)

buildHierarchy(recs) == AttachFrom(hierarchyNodes(recs), 1)

\* processCountryRepo, lines 491-496
rootsV2(nodes) ==
  SelectSeq([i \in 1..Len(nodes) |-> i],
            LAMBDA i : nodes[i].parent = <<>> \/ MapGet(nodes, nodes[i].parent) = 0)

InitV2 ==
  /\ docs \in SeqsUpTo(V2Pool, MaxDocs)
  /\ pc = "parse"
  /\ fi = 1
  /\ records = <<>>
  /\ roots = <<>>
  /\ ri = 1
  /\ stack = <<>>
  /\ visited = {}
  /\ events = <<>>
  /\ pendingTree = <<>>
  /\ commits = <<>>
  /\ lastRepo = Null
  /\ V1Unused
  /\ OthersUnused
  /\ ReposUnused

\* processCountryRepo, lines 462-481: one place file
V2ParseFile ==
  /\ pc = "parse"
  /\ fi <= Len(docs)
  /\ LET pr == parseWofRecord(docs[fi]) IN
     records' = IF Truthy(pr.wof_id) /\ Truthy(pr.name) THEN Append(records, pr) ELSE records
  /\ fi' = fi + 1
  /\ UNCHANGED <<docs, pc, roots, ri, stack, visited, events, pendingTree, commits, lastRepo>>
  /\ UNCHANGED v1vars
  /\ UNCHANGED others
  /\ UNCHANGED repovars

\* processCountryRepo, lines 483-496
V2Build ==
  /\ pc = "parse"
  /\ fi > Len(docs)
  /\ IF Len(records) = 0
     THEN pc' = "done" /\ UNCHANGED <<records, roots>>
     ELSE /\ LET nodes == buildHierarchy(records) IN
             /\ records' = nodes
             /\ roots' = rootsV2(nodes)
          /\ pc' = "walk"
  /\ ri' = 1
  /\ UNCHANGED <<docs, fi, stack, visited, events, pendingTree, commits, lastRepo>>
  /\ UNCHANGED v1vars
  /\ UNCHANGED others
  /\ UNCHANGED repovars

\* processCountryRepo, lines 499-508: the next root
V2WalkRoot ==
  /\ pc = "walk"
  /\ stack = <<>>
  /\ ri <= Len(roots)
  /\ LET repoBase == JoinPath(TARGET_DIR, sanitizeSegment(Str(RepoNameChars)))
         rootPath == JoinPath(repoBase, sanitizeSegment(records[roots[ri]].name))
     IN /\ events' = events \o <<FolderEvent(repoBase, 0), FolderEvent(rootPath, roots[ri])>>
        /\ stack' = <<[node |-> roots[ri], path |-> rootPath]>>
  /\ ri' = ri + 1
  /\ UNCHANGED <<docs, pc, fi, records, roots, visited, pendingTree, commits, lastRepo>>
  /\ UNCHANGED v1vars
  /\ UNCHANGED others
  /\ UNCHANGED repovars

\* the placeholders and stack entries of lines 518-522, from child k on
RECURSIVE PushChildren(_, _, _, _)
PushChildren(n, path, k, acc) ==
  IF k > Len(records[n].children) THEN acc
  ELSE LET ch == records[n].children[k]
           childPath == JoinPath(path, sanitizeSegment(records[ch].name))
       IN PushChildren(n, path, k + 1,
            [events |-> Append(acc.events, FolderEvent(childPath, ch)),
             stack |-> Append(acc.stack, [node |-> ch, path |-> childPath])])

\* processCountryRepo, lines 509-524: one turn of the while loop
V2Pop ==
  /\ pc = "walk"
  /\ stack # <<>>
  /\ LET top == stack[Len(stack)]
         rest == SubSeq(stack, 1, Len(stack) - 1)
         ev == Append(events, FolderEvent(top.path, top.node))
     IN IF Len(records[top.node].children) = 0
        THEN /\ events' = Append(ev, LeafEvent(top.path, top.node))
             /\ stack' = rest
        ELSE LET r == PushChildren(top.node, top.path, 1, [events |-> ev, stack |-> rest])
             IN events' = r.events /\ stack' = r.stack
  /\ UNCHANGED <<docs, pc, fi, records, roots, ri, visited, pendingTree, commits, lastRepo>>
  /\ UNCHANGED v1vars
  /\ UNCHANGED others
  /\ UNCHANGED repovars

\* processCountryRepo, line 527
V2Done ==
  /\ pc = "walk"
  /\ stack = <<>>
  /\ ri > Len(roots)
  /\ pc' = "done"
  /\ UNCHANGED <<docs, fi, records, roots, ri, stack, visited, events, pendingTree, commits, lastRepo>>
  /\ UNCHANGED v1vars
  /\ UNCHANGED others
  /\ UNCHANGED repovars

NextV2 ==
  \/ V2ParseFile
  \/ V2Build
  \/ V2WalkRoot
  \/ V2Pop
  \/ V2Done

SpecV2 == InitV2 /\ [][NextV2]_vars

(***************************************************************************)
(* V1 (src/unnamed/part_000, lines 1-242): local scan, one GitHub put per  *)
(* file, all puts through ghQueue; recurseCreate runs the children of a    *)
(* node on a PQueue of its own.                                            *)
(*                                                                         *)
(* JavaScript runs one callback at a time, to its next await.  The only    *)
(* asynchronous completions of the walk are the two HTTP calls of a        *)
(* githubPut body (getContent, then createOrUpdateFileContents), so the    *)
(* model has one action for each: the action holds everything the script   *)
(* runs until it waits again.  p-queue starts a job at once while fewer    *)
(* than `concurrency` jobs run, and otherwise in the order of the add      *)
(* calls.  githubPut resolves true or false and no caller reads the        *)
(* result, so a failed put leaves the state of the script as a successful  *)
(* one does; an event of V1 is the put of one file.                        *)
(*                                                                         *)
(* readAllWofFiles fills its array `nodes` and ends without a return       *)
(* statement, so main receives undefined and leaves at line 207 whatever   *)
(* the files hold (SpecV1).  The rest of main, lines 209-239, is therefore *)
(* modelled as a unit of its own, started on the array readAllWofFiles     *)
(* fills (SpecV1Walk).                                                     *)
(***************************************************************************)
MaxV1Docs == 4

\* ghQueue = new PQueue({ concurrency: 1, intervalCap: 1 })
GhConcurrency == 1

\* WOF_CONCURRENCY, "4" when the environment does not set it
ConcurrencyValues == {1, 2, 4}

\* a region that names no parent
dOrphan == Feature(Num(8), Str(Exland), "region", Undefined)

V1Pool == {dCountry, dRegion, dLocality, dLocality2, dDangling, dOrphan}

\* pickBestName(props): the documents of the model carry wof:name only
pickBestName(props) == JsOr(props.wof_name, Null)

\* getPropVariants(props, ...keys), lines 58-63
RECURSIVE getPropVariants(_, _)
getPropVariants(props, keys) ==
  IF keys = <<>> THEN Undefined
  ELSE IF ~IsUndef(Prop(props, Head(keys))) THEN Prop(props, Head(keys))
  ELSE getPropVariants(props, Tail(keys))

\* readAllWofFiles, lines 93-108, for one parsed file: the node to push, Null
\* when the file is dropped.  A document of the model has no `type`.
readNode(js) ==
  LET props == IF Truthy(js.properties) THEN js.properties
               ELSE [wof_id |-> Undefined, wof_name |-> Undefined,
                     wof_placetype |-> "undefined", wof_parent_id |-> Undefined]
      id == getPropVariants(props, <<"wof_id", "id">>)
      parent == getPropVariants(props, <<"wof_parent_id", "parent_id", "parent">>)
      name == pickBestName(props)
  IN IF Truthy(id) /\ Truthy(name)
     THEN [id |-> id.num,
           parent |-> IF Truthy(parent) THEN Num(parent.num) ELSE Null,
           placetype |-> props.wof_placetype,
           name |-> name]
     ELSE Null

\* map.has(parent) / map.get(parent) for a node's parent value
ParentNode(nodes, parent) == IF Truthy(parent) THEN MapGet(nodes, parent.num) ELSE 0

\* buildTree(nodes), second loop, from map entry i on
RECURSIVE AttachV1From(_, _)
AttachV1From(nodes, i) ==
  IF i > Len(nodes) THEN nodes
  ELSE LET p == ParentNode(nodes, nodes[i].parent) IN
       IF p # 0
       THEN AttachV1From([nodes EXCEPT ![p].children = Append(@, i)], i + 1)
       ELSE AttachV1From(nodes, i + 1)

\* buildTree(nodes): one new node per id, in the order in which the ids were
\* first set, holding the last record of the id
buildTree(nodesArr) ==
  LET order == MapValues(nodesArr)
      fresh == [k \in 1..Len(order) |->
                  [id |-> nodesArr[order[k]].id,
                   parent |-> nodesArr[order[k]].parent,
                   placetype |-> nodesArr[order[k]].placetype,
                   name |-> nodesArr[order[k]].name,
                   children |-> <<>>]]
  IN AttachV1From(fresh, 1)

\* main, lines 211-220
countriesV1(map) ==
  LET all == [i \in 1..Len(map) |-> i]
      found == SelectSeq(all, LAMBDA i : map[i].placetype = "country")
  IN IF Len(found) = 0
     THEN SelectSeq(all, LAMBDA i : ~Truthy(map[i].parent))
     ELSE found

\* nodeToSegment(node)
nodeToSegment(node) == sanitizeSegment(node.name)

\* parentPath ? `${parentPath}/${seg}` : seg
ChildPath(parentPath, seg) == IF parentPath # <<>> THEN JoinPath(parentPath, seg) ELSE seg

\* The jobs of a queue whose body has started and has not returned: a job is
\* "queued" until the queue starts it, then in its sha lookup ("sha"), then
\* in createOrUpdateFileContents ("put").
Running(gh) == {k \in 1..Len(gh) : gh[k].phase # "queued"}

\* a queue that starts every job it is given at once
CanStartAlways(gh) == TRUE

\* ghQueue, line 42: the queue starts a job while fewer than `concurrency`
\* jobs run (the interval is 0, so intervalCap has no effect)
CanStart(gh) == Cardinality(Running(gh)) < GhConcurrency

\* ghQueue after a job returned: the first queued job starts, if one may
StartNext(gh) ==
  LET queued == {k \in 1..Len(gh) : gh[k].phase = "queued"} IN
  IF queued # {} /\ CanStart(gh)
  THEN LET k == CHOOSE j \in queued : \A i \in queued : j <= i
       IN [gh EXCEPT ![k].phase = "sha"]
  ELSE gh

\* The state of a walk: w.tasks, w.gh (ghQueue), w.m (main), w.ri, w.pc.
\* githubPut(path of file in folder `path`): ghQueue.add
Enqueue(w, t, path, file) ==
  [w EXCEPT !.gh = Append(@, [task |-> t, path |-> path, file |-> file,
                              phase |-> IF CanStart(w.gh) THEN "sha" ELSE "queued"])]

\* recurseCreate(node, parentPath, map), lines 178-182, called for task `by`
\* (0 is main): the call runs to its first await
Spawn(w, n, parentPath, by, depth) ==
  LET myPath == ChildPath(parentPath, nodeToSegment(records[n]))
      t == Len(w.tasks) + 1
  IN Enqueue([w EXCEPT !.tasks = Append(@,
                [node |-> n, path |-> myPath, by |-> by, st |-> "keep",
                 waiting |-> <<>>, pending |-> 0, depth |-> depth])],
             t, myPath, ".keep")

\* q.add for the children cs of task t, of which k more may start at once
RECURSIVE AddChildren(_, _, _, _)
AddChildren(w, t, cs, k) ==
  IF cs = <<>> THEN w
  ELSE IF k > 0
  THEN AddChildren(
         Spawn([w EXCEPT !.tasks[t].pending = @ + 1],
               Head(cs), w.tasks[t].path, t, w.tasks[t].depth + 1),
         t, Tail(cs), k - 1)
  ELSE [w EXCEPT !.tasks[t].waiting = cs]

\* main, lines 223-228: the next country, or the end of main
StartRoot(w, conc) ==
  IF w.ri > Len(roots) THEN [w EXCEPT !.pc = "done", !.m.st = "none"]
  ELSE LET rootPath == nodeToSegment(records[roots[w.ri]]) IN
       Enqueue([w EXCEPT !.m.st = "rootKeep", !.m.path = rootPath, !.m.ci = 0],
               0, rootPath, ".keep")

\* main, lines 234-238: recurseCreate of the child after ci, or the root's
\* metadata.json once every child is done
MainNextChild(w) ==
  LET c == roots[w.ri]
      ci == w.m.ci + 1
  IN IF ci <= Len(records[c].children)
     THEN Spawn([w EXCEPT !.m.st = "rootChild", !.m.ci = ci],
                records[c].children[ci], w.m.path, 0, 2)
     ELSE Enqueue([w EXCEPT !.m.st = "rootMeta"], 0, w.m.path, "metadata.json")

\* recurseCreate of task t returns: main goes on, or the queue of the
\* parent task starts its next job, or becomes idle and the parent returns
RECURSIVE Finish(_, _)
Finish(w, t) ==
  LET w1 == [w EXCEPT !.tasks[t].st = "done"]
      by == w.tasks[t].by
  IN IF by = 0 THEN MainNextChild(w1)
     ELSE IF w1.tasks[by].waiting # <<>>
     THEN Spawn([w1 EXCEPT !.tasks[by].waiting = Tail(@)],
                Head(w1.tasks[by].waiting), w1.tasks[by].path, by,
                w1.tasks[by].depth + 1)
     ELSE IF w1.tasks[by].pending = 1
     THEN Finish([w1 EXCEPT !.tasks[by].pending = 0], by)
     ELSE [w1 EXCEPT !.tasks[by].pending = @ - 1]

\* recurseCreate, lines 184-198, and createLeafFiles: task t goes on after
\* the put it awaited
ResumeTask(w, t, conc) ==
  LET tk == w.tasks[t] IN
  CASE tk.st = "keep" ->
         IF Len(records[tk.node].children) = 0
         THEN Enqueue([w EXCEPT !.tasks[t].st = "leaf1"], t, tk.path, "buyers.json")
         ELSE AddChildren([w EXCEPT !.tasks[t].st = "children"], t,
                          records[tk.node].children, conc)
    [] tk.st = "leaf1" ->
         Enqueue([w EXCEPT !.tasks[t].st = "leaf2"], t, tk.path, "properties.json")
    [] tk.st = "leaf2" ->
         Enqueue([w EXCEPT !.tasks[t].st = "leaf3"], t, tk.path, "metadata.json")
    [] tk.st = "leaf3" -> Finish(w, t)

\* main, lines 228-239: main goes on after the put it awaited
ResumeMain(w, conc) ==
  CASE w.m.st = "rootKeep" ->
         IF Len(records[roots[w.ri]].children) = 0
         THEN Enqueue([w EXCEPT !.m.st = "rootLeaf1"], 0, w.m.path, "buyers.json")
         ELSE MainNextChild(w)
    [] w.m.st = "rootLeaf1" ->
         Enqueue([w EXCEPT !.m.st = "rootLeaf2"], 0, w.m.path, "properties.json")
    [] w.m.st = "rootLeaf2" ->
         Enqueue([w EXCEPT !.m.st = "rootLeaf3"], 0, w.m.path, "metadata.json")
    [] w.m.st \in {"rootLeaf3", "rootMeta"} ->
         StartRoot([w EXCEPT !.ri = @ + 1], conc)

\* the node a job writes for
JobNode(job) == IF job.task = 0 THEN roots[ri] ELSE tasks[job.task].node

PutEvent(job) ==
  [kind |-> IF job.file = ".keep" THEN "folder" ELSE "file",
   path |-> job.path, file |-> job.file, node |-> JobNode(job)]

RemoveAt(q, k) == SubSeq(q, 1, k - 1) \o SubSeq(q, k + 1, Len(q))

\* readAllWofFiles, lines 72-108: the array `nodes` after the files fs
RECURSIVE nodesOf(_)
nodesOf(fs) ==
  IF fs = <<>> THEN <<>>
  ELSE LET node == readNode(fs[Len(fs)])
           before == nodesOf(SubSeq(fs, 1, Len(fs) - 1))
       IN IF IsNull(node) THEN before ELSE Append(before, node)

MainIdle(c) == [st |-> "none", path |-> <<>>, ci |-> 0, concurrency |-> c]

V1Start(p, recs) ==
  /\ docs \in SeqsUpTo(V1Pool, MaxV1Docs)
  /\ pc = p
  /\ fi = 1
  /\ records = recs
  /\ roots = <<>>
  /\ ri = 1
  /\ stack = <<>>
  /\ visited = {}
  /\ events = <<>>
  /\ pendingTree = <<>>
  /\ commits = <<>>
  /\ lastRepo = Null
  /\ tasks = <<>>
  /\ ghQueue = <<>>
  /\ mstate \in {MainIdle(c) : c \in ConcurrencyValues}
  /\ run = 1
  /\ firstEvents = <<>>
  /\ OthersUnused
  /\ ReposUnused

\* the script as it is started: no file read yet
InitV1 == V1Start("read", <<>>)

\* readAllWofFiles, lines 72-108: one file
V1ReadFile ==
  /\ pc = "read"
  /\ fi <= Len(docs)
  /\ records' = nodesOf(SubSeq(docs, 1, fi))
  /\ fi' = fi + 1
  /\ UNCHANGED <<docs, pc, roots, ri, stack, visited, events, pendingTree, commits, lastRepo>>
  /\ UNCHANGED v1vars
  /\ UNCHANGED others
  /\ UNCHANGED repovars

\* readAllWofFiles, lines 109-112, and main, lines 203-207: the function
\* returns undefined, !nodesArr holds and the process exits
V1Exit ==
  /\ pc = "read"
  /\ fi > Len(docs)
  /\ pc' = "exit"
  /\ UNCHANGED <<docs, fi, records, roots, ri, stack, visited, events, pendingTree,
                 commits, lastRepo>>
  /\ UNCHANGED v1vars
  /\ UNCHANGED others
  /\ UNCHANGED repovars

NextV1 ==
  \/ V1ReadFile
  \/ V1Exit

SpecV1 == InitV1 /\ [][NextV1]_vars

\* main at line 209, on the array readAllWofFiles fills from the files
InitV1Walk == V1Start("main", nodesOf(docs))

\* main, lines 204-228: exit on no nodes; else the tree, the countries and
\* the placeholder of the first country
V1Build ==
  /\ pc = "main"
  /\ IF Len(records) = 0
     THEN /\ pc' = "exit"
          /\ UNCHANGED <<records, roots, ghQueue, mstate>>
     ELSE LET map == buildTree(records)
              cs == countriesV1(map)
          IN /\ records' = map
             /\ roots' = cs
             /\ IF Len(cs) = 0
                THEN /\ pc' = "done"
                     /\ UNCHANGED <<ghQueue, mstate>>
                ELSE LET rootPath == nodeToSegment(map[cs[1]]) IN
                     /\ pc' = "walk"
                     /\ ghQueue' = <<[task |-> 0, path |-> rootPath, file |-> ".keep",
                                      phase |-> "sha"]>>
                     /\ mstate' = [mstate EXCEPT !.st = "rootKeep", !.path = rootPath,
                                                 !.ci = 0]
  /\ UNCHANGED <<docs, fi, ri, stack, visited, events, pendingTree, commits, lastRepo,
                 tasks, run, firstEvents>>
  /\ UNCHANGED others
  /\ UNCHANGED repovars

\* githubPut, line 142: the sha lookup of a started job returns
GhSha(k) ==
  /\ pc = "walk"
  /\ k <= Len(ghQueue)
  /\ ghQueue[k].phase = "sha"
  /\ ghQueue' = [ghQueue EXCEPT ![k].phase = "put"]
  /\ UNCHANGED <<docs, pc, fi, records, roots, ri, stack, visited, events,
                 pendingTree, commits, lastRepo, tasks, mstate, run, firstEvents>>
  /\ UNCHANGED others
  /\ UNCHANGED repovars

\* githubPut, lines 143-152: createOrUpdateFileContents of a running job
\* returns; the caller goes on to its next await.  recurseCreate has no bound
\* on its depth; the model stops at MaxDepth nested calls.
GhPut(k) ==
  /\ pc = "walk"
  /\ k <= Len(ghQueue)
  /\ ghQueue[k].phase = "put"
  /\ LET job == ghQueue[k]
         w0 == [tasks |-> tasks, gh |-> StartNext(RemoveAt(ghQueue, k)), m |-> mstate,
                ri |-> ri, pc |-> pc]
         w1 == IF job.task = 0 THEN ResumeMain(w0, mstate.concurrency)
               ELSE ResumeTask(w0, job.task, mstate.concurrency)
     IN /\ \A t \in 1..Len(w1.tasks) : w1.tasks[t].depth <= MaxDepth
        /\ events' = Append(events, PutEvent(job))
        /\ tasks' = w1.tasks
        /\ ghQueue' = w1.gh
        /\ mstate' = w1.m
        /\ ri' = w1.ri
        /\ pc' = w1.pc
  /\ UNCHANGED <<docs, fi, records, roots, stack, visited, pendingTree, commits,
                 lastRepo, run, firstEvents>>
  /\ UNCHANGED others
  /\ UNCHANGED repovars

\* a request of one of the started jobs of ghQueue returns
GhStep == \E k \in 1..Len(ghQueue) : GhSha(k) \/ GhPut(k)

NextV1Walk ==
  \/ V1Build
  \/ GhStep

SpecV1Walk == InitV1Walk /\ [][NextV1Walk]_vars

\* The walk is executed a second time on the same array.
V1Rerun ==
  /\ pc = "done"
  /\ run = 1
  /\ run' = 2
  /\ firstEvents' = events
  /\ pc' = "main"
  /\ records' = nodesOf(docs)
  /\ roots' = <<>>
  /\ ri' = 1
  /\ events' = <<>>
  /\ tasks' = <<>>
  /\ ghQueue' = <<>>
  /\ mstate' = MainIdle(mstate.concurrency)
  /\ UNCHANGED <<docs, fi, stack, visited, pendingTree, commits, lastRepo>>
  /\ UNCHANGED others
  /\ UNCHANGED repovars

NextV1WalkTwice ==
  \/ NextV1Walk
  \/ V1Rerun

SpecV1WalkTwice == InitV1Walk /\ [][NextV1WalkTwice]_vars

(***************************************************************************)
(* Claims checked on V3 (SpecV3).                                          *)
(***************************************************************************)
\* the objects that are in some children list
Attached == {records[p].children[k] : <<p, k>> \in
               {<<p, k>> \in (1..Len(records)) \X (1..Len(records)) :
                  k <= Len(records[p].children)}}

RootSet == {roots[k] : k \in 1..Len(roots)}

\* the transition table of the specification, as pairs
ChainPairs ==
  {<<"country", "region">>, <<"region", "locality">>,
   <<"locality", "neighbourhood">>, <<"neighbourhood", "microhood">>}

\* C3: after the build, an object is in the children of an object p only if p
\* is the node its parent id resolves to and the (parent placetype, child
\* placetype) pair is in the transition table; in particular no locality is
\* attached to a country.
C3_TransitionFiltering ==
  pc # "parse" =>
    \A p \in 1..Len(records) : \A k \in 1..Len(records[p].children) :
      LET c == records[p].children[k] IN
      /\ records[c].parent = records[p].id
      /\ <<records[p].placetype, records[c].placetype>> \in ChainPairs
      /\ ~(records[p].placetype = "country" /\ records[c].placetype = "locality")

\* C3 witness: the build has run on a locality whose parent is a country in
\* the map; the locality is in no children list while a region is attached.
C3_Witness ==
  /\ pc = "done"
  /\ \E i \in 1..Len(records) :
       /\ records[i].placetype = "locality"
       /\ \E p \in 1..Len(records) :
            records[p].id = records[i].parent /\ records[p].placetype = "country"
       /\ i \notin Attached
  /\ \E c \in Attached : records[c].placetype = "region"

\* C4: a record whose parent id resolves to a node of the map but whose
\* transition is not permitted is in no children list and is not a root.
C4_ExcludedEntirely ==
  pc # "parse" =>
    \A i \in 1..Len(records) :
      (\E p \in 1..Len(records) :
          /\ records[p].id = records[i].parent
          /\ <<records[p].placetype, records[i].placetype>> \notin ChainPairs)
      => (i \notin Attached /\ i \notin RootSet)

\* the objects the walk can reach from the roots
RECURSIVE ReachFrom(_, _)
ReachFrom(S, n) ==
  IF n = 0 THEN S
  ELSE ReachFrom(S \cup {records[p].children[k] : <<p, k>> \in
           {<<p, k>> \in S \X (1..Len(records)) : k <= Len(records[p].children)}}, n - 1)

InTree == ReachFrom(RootSet, Len(records))

\* C5: with duplicate ids the tree holds one node per id, the last record of
\* the id; no children list holds an id twice; and the finished walk has a
\* folder event for every node of the tree.
C5_LastWriteWins ==
  pc # "parse" =>
    /\ \A i \in InTree : \A j \in 1..Len(records) :
         records[j].id = records[i].id => j <= i
    /\ \A p \in 1..Len(records) : \A k, l \in 1..Len(records[p].children) :
         records[records[p].children[k]].id = records[records[p].children[l]].id => k = l
    /\ pc = "done" =>
         \A i \in InTree : \E e \in 1..Len(events) :
           events[e].kind = "folder" /\ events[e].node = i

\* the path of an event relative to the walk base ROOT
Rel(path) == SubSeq(path, Len(ROOT) + 2, Len(path))

\* the id, parent, placetype and name of the records, without the links
Flat(recs) ==
  [i \in 1..Len(recs) |->
     [id |-> recs[i].id, parent |-> recs[i].parent,
      placetype |-> recs[i].placetype, name |-> recs[i].name]]

E2ERecords ==
  <<[id |-> <<"1">>, parent |-> <<>>, placetype |-> "country", name |-> Str(Testland)],
    [id |-> <<"2">>, parent |-> <<"1">>, placetype |-> "region", name |-> Str(North)],
    [id |-> <<"3">>, parent |-> <<"2">>, placetype |-> "locality", name |-> Str(Northtown)]>>

\* C8: for the records country 1 Testland, region 2 North (parent 1),
\* locality 3 Northtown (parent 2) the build returns the single root 1 and the
\* walk emits folder Testland, folder Testland/North, folder
\* Testland/North/Northtown and one leaf event, for Testland/North/Northtown.
C8_EndToEnd ==
  (pc = "done" /\ Flat(records) = E2ERecords) =>
    /\ Len(roots) = 1 /\ records[roots[1]].id = <<"1">>
    /\ [e \in 1..Len(events) |-> <<events[e].kind, Rel(events[e].path)>>] =
         << <<"folder", Testland>>,
            <<"folder", Testland \o <<"/">> \o North>>,
            <<"folder", Testland \o <<"/">> \o North \o <<"/">> \o Northtown>>,
            <<"leaf", Testland \o <<"/">> \o North \o <<"/">> \o Northtown>> >>
    /\ \A e \in 1..Len(events) : SubSeq(events[e].path, 1, Len(ROOT) + 1) = ROOT \o <<"/">>

\* C8 witness: the run on the three records of the scenario has finished.
C8_Witness == pc = "done" /\ Flat(records) = E2ERecords /\ Len(events) = 4

\* C9: every record in the list handed to the builder has an id and a name
\* that are present and non-empty (no id "undefined", no missing name).
C9_RecordRetention ==
  \A i \in 1..Len(records) :
    /\ IsStr(records[i].name) /\ records[i].name.str # <<>>
    /\ records[i].id # <<>>
    /\ records[i].id # <<"u", "n", "d", "e", "f", "i", "n", "e", "d">>

(***************************************************************************)
(* Claims checked on V4 (SpecV4).                                          *)
(***************************************************************************)
\* the number of folder events of object n
FolderCount(n) ==
  Cardinality({e \in 1..Len(events) : events[e].kind = "folder" /\ events[e].node = n})

\* the node the parent id of object i resolves to, 0 when it resolves to none
ParentOf(i) == IF i = 0 THEN 0 ELSE MapGet(records, records[i].parent)

RECURSIVE Ancestor(_, _)
Ancestor(i, k) == IF k = 0 THEN i ELSE Ancestor(ParentOf(i), k - 1)

\* object i is a node whose parent pointers lead back to itself
OnCycle(i) == \E k \in 1..Len(records) : Ancestor(i, k) = i

\* C1: when the parent pointers of the records form a cycle (A's parent is B
\* and B's parent is A, or A is its own parent), the walk emits at most one
\* folder event for each node of the cycle.
C1_CycleSafety ==
  \A n \in 1..Len(records) : OnCycle(n) => FolderCount(n) <= 1

(***************************************************************************)
(* Claims checked on V2 (SpecV2).                                          *)
(***************************************************************************)
\* the nodes of the subtrees of the objects ns, depth first, each node before
\* its children, children in the order of the children sequence
RECURSIVE PreOrder(_, _)
PreOrder(ns, fuel) ==
  IF ns = <<>> \/ fuel = 0 THEN <<>>
  ELSE <<Head(ns)>> \o PreOrder(records[Head(ns)].children, fuel - 1)
       \o PreOrder(Tail(ns), fuel)

\* the nodes of the folder events, in the order of emission
FolderNodes ==
  LET fe == SelectSeq(events, LAMBDA e : e.kind = "folder" /\ e.node # 0)
  IN [k \in 1..Len(fe) |-> fe[k].node]

\* C7: the finished walk has emitted the folder events of the nodes in
\* depth-first pre-order from the roots: one folder event per node, before
\* those of its descendants, the children's subtrees in children order.
C7_PreOrderWalk ==
  pc = "done" => FolderNodes = PreOrder(roots, Len(records) + 1)

(***************************************************************************)
(* Claims checked on the walk of V1 (SpecV1Walk, SpecV1WalkTwice).         *)
(***************************************************************************)
\* the names of the files put for node n, in the order of the puts
FilesOf(n) ==
  LET puts == SelectSeq(events, LAMBDA e : e.kind = "file" /\ e.node = n)
  IN [i \in 1..Len(puts) |-> puts[i].file]

LeafFiles == <<"buyers.json", "properties.json", "metadata.json">>

\* C2: once the walk is done, a visited node with no attached child has its
\* folder event and exactly one leaf seeding (buyers.json, properties.json,
\* metadata.json), and a visited node with at least one child, a root
\* included, has no leaf file of its own.
C2_LeafDetection ==
  pc = "done" =>
    \A n \in 1..Len(records) :
      FolderCount(n) > 0 =>
        IF Len(records[n].children) = 0
        THEN FilesOf(n) = LeafFiles
        ELSE FilesOf(n) = <<>>

\* events is a prefix of firstEvents
IsPrefix(a, b) == Len(a) <= Len(b) /\ a = SubSeq(b, 1, Len(a))

\* C6: a second build and walk of the same record sequence puts the same
\* files in the same order as the first, whatever the number of sibling
\* calls the per-node queues run at once.
C6_Determinism ==
  run = 2 =>
    /\ IsPrefix(events, firstEvents)
    /\ pc = "done" => events = firstEvents

\* both walks are done, more than one sibling call may run at once and some
\* node below a root has two children, whose calls were started together
C6_Witness ==
  /\ run = 2
  /\ pc = "done"
  /\ mstate.concurrency > 1
  /\ \E t \in 1..Len(tasks) : Len(records[tasks[t].node].children) >= 2
  /\ Len(events) >= 10

\* the nodes of placetype country
Countries == {n \in 1..Len(records) : records[n].placetype = "country"}

\* the nodes whose parent id is missing or is no key of the map
Unresolved == {n \in 1..Len(records) : ParentNode(records, records[n].parent) = 0}

\* C10: the roots of the walk are exactly the country nodes or, no
\* transition table being in use, exactly the nodes with no resolvable
\* parent in the map (no parent id, or a parent id that is no key).
C10_RootSelection ==
  pc \in {"walk", "done"} => (RootSet = Countries \/ RootSet = Unresolved)

(***************************************************************************)
(* Claims on the placetype chain of V3 (SpecV3).                           *)
(***************************************************************************)
\* the documents that carry properties and the placetype pt
DocsOfType(pt) ==
  {i \in 1..Len(docs) : Truthy(docs[i].properties)
                         /\ docs[i].properties.wof_placetype = pt}

\* the neighbourhood object the parent id of document i resolves to, 0 when none
NeighbourhoodOf(i) ==
  LET p == MapGet(records, JsString(JsOr(docs[i].properties.wof_parent_id, Str(<<>>))))
  IN IF p # 0 /\ records[p].placetype = "neighbourhood" THEN p ELSE 0

\* C11: once the graph is built, a microhood document whose parent id is the
\* id of a neighbourhood of the map has a record (it passed the allow-set)
\* and that record is a child of the neighbourhood.
C11_MicrohoodReached ==
  pc # "parse" =>
    \A i \in DocsOfType("microhood") :
      NeighbourhoodOf(i) # 0 =>
        \E k \in 1..Len(records[NeighbourhoodOf(i)].children) :
          LET c == records[NeighbourhoodOf(i)].children[k] IN
          /\ records[c].placetype = "microhood"
          /\ records[c].id = JsString(docs[i].properties.wof_id)

(***************************************************************************)
(* V5 (src/repo/wof_create_folders.js, lines 227-404): every .geojson file *)
(* of the data directory goes through processFeature, which makes the      *)
(* folder country/region/locality/neighbourhood of the file and its leaf   *)
(* files; runParallel runs `concurrency` workers over the files.           *)
(*                                                                         *)
(* processFeature has no await: the whole of it runs when the handler is   *)
(* called, and a worker only waits for the handler's promise.  A worker    *)
(* step is therefore: the await returns (or throws), and the worker runs   *)
(* on to its next await.  A rejected worker rejects Promise.all, main      *)
(* rejects and the catch of line 401 ends the process; the workers that    *)
(* are still waiting may go on until then, so the exit may come at any     *)
(* time after the first rejection.                                         *)
(***************************************************************************)
MaxV5Files == 3

OUTPUT == <<"r", "e", "a", "l", "-", "e", "s", "t", "a", "t", "e">>

\* a file whose text is JSON with properties.  Absent keys are undefined.
GeoFile(country, region, locality) ==
  [parses |-> TRUE,
   properties |-> [wof_country |-> country, wof_region |-> region,
                   wof_locality |-> locality, wof_neighbourhood |-> Undefined]]

fCountry == GeoFile(Str(Testland), Undefined, Undefined)
fRegion == GeoFile(Str(Testland), Str(North), Undefined)
fLocality == GeoFile(Str(Testland), Str(North), Str(OldTown))
\* no wof:country
fNoCountry == GeoFile(Undefined, Str(South), Undefined)
\* JSON without properties
fNoProps == [parses |-> TRUE, properties |-> Undefined]
\* a file whose text is not JSON
fBad == [parses |-> FALSE, properties |-> Undefined]

V5Pool == {fCountry, fRegion, fLocality, fNoCountry, fNoProps, fBad}

\* sanitize(name) of V5, lines 257-263
sanitizeV5(s) == CollapseUnderscore(CollapseSpace(ReplaceIllegal(NFKD(s))))

RECURSIVE JoinAll(_, _)
\* path.join(rootOut, ...clean)
JoinAll(base, segs) ==
  IF segs = <<>> THEN base ELSE JoinAll(JoinPath(base, Head(segs)), Tail(segs))

\* processFeature(file, rootOut), lines 317-340: whether JSON.parse threw,
\* and the folders made (none when the file names no country)
processFeature(file, rootOut) ==
  IF ~file.parses THEN [threw |-> TRUE, made |-> {}]
  ELSE LET props == IF Truthy(file.properties) THEN file.properties
                    ELSE [wof_country |-> Undefined, wof_region |-> Undefined,
                          wof_locality |-> Undefined, wof_neighbourhood |-> Undefined]
           country == JsOr(props.wof_country, Null)
           region == JsOr(props.wof_region, Null)
           locality == JsOr(props.wof_locality, Null)
           neighbourhood == JsOr(props.wof_neighbourhood, Null)
           names == <<country>>
                    \o (IF Truthy(region) THEN <<region>> ELSE <<>>)
                    \o (IF Truthy(locality) THEN <<locality>> ELSE <<>>)
                    \o (IF Truthy(neighbourhood) THEN <<neighbourhood>> ELSE <<>>)
           clean == [k \in 1..Len(names) |-> sanitizeV5(JsString(names[k]))]
       IN [threw |-> FALSE,
           made |-> IF ~Truthy(country) THEN {} ELSE {JoinAll(rootOut, clean)}]

\* runParallel, lines 353-356: worker w takes the next index and, when there
\* is one, calls the handler.  r is the state of the runner.
TakeNext(r, w) ==
  LET i == r.index IN
  IF i >= Len(docs)
  THEN [r EXCEPT !.index = i + 1, !.workers[w] = [st |-> "ended", i |-> i]]
  ELSE LET out == processFeature(docs[i + 1], OUTPUT) IN
       [r EXCEPT !.index = i + 1,
                 !.calls = Append(@, i),
                 !.created = @ \cup out.made,
                 !.workers[w] = [st |-> IF out.threw THEN "throwing" ELSE "await",
                                 i |-> i]]

\* the callbacks of new Array(concurrency).fill(0).map(...), worker w first
RECURSIVE StartWorkers(_, _)
StartWorkers(r, w) ==
  IF w > Len(r.workers) THEN r ELSE StartWorkers(TakeNext(r, w), w + 1)

InitV5 ==
  /\ docs \in SeqsUpTo(V5Pool, MaxV5Files)
  /\ pc = "main"
  /\ fi = 1
  /\ records = <<>>
  /\ roots = <<>>
  /\ ri = 1
  /\ stack = <<>>
  /\ visited = {}
  /\ events = <<>>
  /\ pendingTree = <<>>
  /\ commits = <<>>
  /\ lastRepo = Null
  /\ V1Unused
  /\ ReposUnused
  /\ index = 0
  /\ completed = 0
  /\ workers \in {[w \in 1..c |-> [st |-> "new", i |-> 0]] : c \in ConcurrencyValues}
  /\ created = {}
  /\ input = Null
  /\ segment = Null
  /\ config = PLACETYPE_CHAIN

\* main, lines 380-396, and runParallel, lines 347-366, to its await
V5Start ==
  /\ pc = "main"
  /\ LET r == StartWorkers([index |-> 0, calls |-> <<>>, created |-> {},
                            workers |-> workers], 1)
     IN /\ index' = r.index
        /\ events' = r.calls
        /\ created' = r.created
        /\ workers' = r.workers
  /\ pc' = "run"
  /\ UNCHANGED <<docs, fi, records, roots, ri, stack, visited, pendingTree, commits,
                 lastRepo, completed, input, segment, config>>
  /\ UNCHANGED v1vars
  /\ UNCHANGED repovars

\* runParallel, lines 356-362 and 353-356: the await of worker w returns and
\* the worker runs to its next await; or the await throws and the worker ends
V5Resume(w) ==
  /\ pc = "run"
  /\ workers[w].st \in {"await", "throwing"}
  /\ IF workers[w].st = "throwing"
     THEN /\ workers' = [workers EXCEPT ![w].st = "rejected"]
          /\ UNCHANGED <<index, completed, events, created>>
     ELSE LET r == TakeNext([index |-> index, calls |-> events, created |-> created,
                             workers |-> workers], w)
          IN /\ completed' = completed + 1
             /\ index' = r.index
             /\ events' = r.calls
             /\ created' = r.created
             /\ workers' = r.workers
  /\ UNCHANGED <<docs, pc, fi, records, roots, ri, stack, visited, pendingTree,
                 commits, lastRepo, input, segment, config>>
  /\ UNCHANGED v1vars
  /\ UNCHANGED repovars

\* runParallel, line 366, and main, line 398: every worker has ended
V5Resolve ==
  /\ pc = "run"
  /\ \A w \in 1..Len(workers) : workers[w].st = "ended"
  /\ pc' = "done"
  /\ UNCHANGED <<docs, fi, records, roots, ri, stack, visited, events, pendingTree,
                 commits, lastRepo>>
  /\ UNCHANGED v1vars
  /\ UNCHANGED others
  /\ UNCHANGED repovars

\* runParallel, line 366, and lines 401-404: a worker has rejected, main
\* rejects and the process exits
V5Fatal ==
  /\ pc = "run"
  /\ \E w \in 1..Len(workers) : workers[w].st = "rejected"
  /\ pc' = "exit"
  /\ UNCHANGED <<docs, fi, records, roots, ri, stack, visited, events, pendingTree,
                 commits, lastRepo>>
  /\ UNCHANGED v1vars
  /\ UNCHANGED others
  /\ UNCHANGED repovars

NextV5 ==
  \/ V5Start
  \/ \E w \in 1..Len(workers) : V5Resume(w)
  \/ V5Resolve
  \/ V5Fatal

SpecV5 == InitV5 /\ [][NextV5]_vars

\* the files that are JSON
Parseable == {i \in 1..Len(docs) : docs[i].parses}

\* C12: the run ends without aborting, and when it has ended every file that
\* is not malformed has been processed: the folder of each file that names a
\* country exists.
C12_MalformedNonFatal ==
  /\ pc # "exit"
  /\ pc = "done" =>
       \A i \in Parseable : processFeature(docs[i], OUTPUT).made \subseteq created

(***************************************************************************)
(* The sanitizers, called on their own (SpecSanitize): a name is passed to *)
(* one of sanitize of part_001, sanitizeSegment / sanitize of part_000 and *)
(* sanitize of wof_create_folders.js (line 52).                            *)
(***************************************************************************)
MaxNameLen == 3

\* a letter, whitespace, an underscore, two characters the sanitizers replace
\* or strip, and a letter with a diacritic
NameChars == {"a", " ", "_", "/", "#", "U+00E3"}

Names == {Undefined, Null} \cup {Str(chars) : chars \in SeqsUpTo(NameChars, MaxNameLen)}

Returned(fn, out) == [fn |-> fn, threw |-> FALSE, out |-> out]
Threw(fn) == [fn |-> fn, threw |-> TRUE, out |-> <<>>]

InitSanitize ==
  /\ docs = <<>>
  /\ pc = "call"
  /\ fi = 1
  /\ records = <<>>
  /\ roots = <<>>
  /\ ri = 1
  /\ stack = <<>>
  /\ visited = {}
  /\ events = <<>>
  /\ pendingTree = <<>>
  /\ commits = <<>>
  /\ lastRepo = Null
  /\ V1Unused
  /\ ReposUnused
  /\ index = 0
  /\ completed = 0
  /\ workers = <<>>
  /\ created = {}
  /\ input \in Names
  /\ segment = Null
  /\ config = PLACETYPE_CHAIN

SanitizeUnchanged ==
  /\ UNCHANGED <<docs, fi, records, roots, ri, stack, visited, events, pendingTree,
                 commits, lastRepo, index, completed, workers, created, input, config>>
  /\ UNCHANGED v1vars
  /\ UNCHANGED repovars

\* sanitize(name) of part_001, lines 50-56
CallSanitizeV3 ==
  /\ pc = "call"
  /\ segment' = Returned("part_001 sanitize", sanitizeV3(input))
  /\ pc' = "returned"
  /\ SanitizeUnchanged

\* sanitizeSegment(name), part_000 lines 44-51, and sanitize(s), lines 279-288
CallSanitizeSegment ==
  /\ pc = "call"
  /\ segment' = Returned("part_000 sanitizeSegment", sanitizeSegment(input))
  /\ pc' = "returned"
  /\ SanitizeUnchanged

\* sanitize(s) of wof_create_folders.js, lines 52-58: s.normalize is a
\* TypeError when s is null or undefined
CallSanitizeV4 ==
  /\ pc = "call"
  /\ segment' = IF IsStr(input)
                THEN Returned("wof_create_folders sanitize", sanitizeV4(input))
                ELSE Threw("wof_create_folders sanitize")
  /\ pc' = "returned"
  /\ SanitizeUnchanged

NextSanitize ==
  \/ CallSanitizeV3
  \/ CallSanitizeSegment
  \/ CallSanitizeV4

SpecSanitize == InitSanitize /\ [][NextSanitize]_vars

\* C13: a sanitizer that returns never returns the empty segment: a name
\* whose characters are all replaced away gives "unnamed".
C13_SanitizeFallback ==
  (pc = "returned" /\ ~segment.threw) => segment.out # <<>>

\* C14: a returned segment holds no "/" and no two consecutive underscores.
C14_PathSafe ==
  (pc = "returned" /\ ~segment.threw) =>
    /\ \A k \in 1..Len(segment.out) : segment.out[k] # "/"
    /\ \A k \in 1..(Len(segment.out) - 1) :
         ~(segment.out[k] = "_" /\ segment.out[k + 1] = "_")

(***************************************************************************)
(* Claims on the parent keys of V2 (SpecV2).                               *)
(***************************************************************************)
ParentKeys == <<"wof_parent_id", "wof_belongsto", "parent_id", "parent">>

\* the first present value among the parent keys, undefined when none is
RECURSIVE FirstPresent(_, _)
FirstPresent(props, keys) ==
  IF keys = <<>> THEN Undefined
  ELSE IF ~IsUndef(Prop(props, Head(keys))) THEN Prop(props, Head(keys))
  ELSE FirstPresent(props, Tail(keys))

\* the documents that give a node of the map: an id and a name, and no later
\* document of the same id
NodeDocs ==
  {i \in 1..Len(docs) :
     /\ Truthy(docs[i].properties)
     /\ Truthy(docs[i].properties.wof_id)
     /\ Truthy(docs[i].properties.wof_name)
     /\ \A j \in (i + 1)..Len(docs) :
          Truthy(docs[j].properties) => docs[j].properties.wof_id # docs[i].properties.wof_id}

\* C15: once the hierarchy is built, a node whose first present parent key
\* (wof:parent_id, wof:belongsto, parent_id, parent) holds the id of a node
\* of the map is a child of that node.
C15_ParentAlias ==
  pc \in {"walk", "done"} =>
    \A i \in NodeDocs :
      LET parent == FirstPresent(docs[i].properties, ParentKeys)
          p == IF IsUndef(parent) THEN 0 ELSE MapGet(records, JsString(parent))
          n == MapGet(records, JsString(docs[i].properties.wof_id))
      IN p # 0 => \E k \in 1..Len(records[p].children) : records[p].children[k] = n

(***************************************************************************)
(* V3 under a placetype table other than the one written in the source     *)
(* (SpecV3Config).  PLACETYPE_CHAIN is a literal of part_001 and ALLOWED   *)
(* its key set; parseRecord and buildGraph read them as globals.  Here the *)
(* table is the one of the source, that table without its country entry,   *)
(* or the empty table, and the two functions are the same code reading it. *)
(***************************************************************************)
NoRootChain ==
  [region |-> {"locality"}, locality |-> {"neighbourhood"},
   neighbourhood |-> {"microhood"}]

EmptyChain == [pt \in {} |-> {}]

Configs == {PLACETYPE_CHAIN, NoRootChain, EmptyChain}

\* parseRecord(obj), lines 235-249, with ALLOWED the keys of chain
parseRecordWith(chain, obj) ==
  LET p == obj.properties IN
  IF ~Truthy(p) THEN Null
  ELSE IF p.wof_placetype \notin DOMAIN chain THEN Null
  ELSE [id |-> JsString(p.wof_id),
        name |-> p.wof_name,
        placetype |-> p.wof_placetype,
        parent |-> JsString(JsOr(p.wof_parent_id, Str(<<>>))),
        children |-> <<>>]

\* buildGraph, lines 258-268, reading chain
RECURSIVE LinkWith(_, _, _)
LinkWith(chain, recs, i) ==
  IF i > Len(recs) THEN recs
  ELSE LET p == MapGet(recs, recs[i].parent) IN
       IF /\ p # 0
          /\ recs[p].placetype \in DOMAIN chain
          /\ recs[i].placetype \in chain[recs[p].placetype]
       THEN LinkWith(chain, [recs EXCEPT ![p].children = Append(@, i)], i + 1)
       ELSE LinkWith(chain, recs, i + 1)

\* buildGraph(records), lines 254-271, reading chain
buildGraphWith(chain, recs) ==
  LET linked == LinkWith(chain, recs, 1) IN
  [records |-> linked,
   roots |-> SelectSeq(MapValues(linked), LAMBDA i : IsRootV3(linked[i]))]

InitV3Config ==
  /\ docs \in SeqsUpTo(DocPool, MaxDocs)
  /\ pc = "parse"
  /\ fi = 1
  /\ records = <<>>
  /\ roots = <<>>
  /\ ri = 1
  /\ stack = <<>>
  /\ visited = {}
  /\ events = <<>>
  /\ pendingTree = <<>>
  /\ commits = <<>>
  /\ lastRepo = Null
  /\ V1Unused
  /\ ReposUnused
  /\ index = 0
  /\ completed = 0
  /\ workers = <<>>
  /\ created = {}
  /\ input = Null
  /\ segment = Null
  /\ config \in Configs

\* main, lines 318-324: one file of the repository
V3ConfigParseFile ==
  /\ pc = "parse"
  /\ fi <= Len(docs)
  /\ LET rec == parseRecordWith(config, docs[fi]) IN
     records' = IF IsNull(rec) THEN records ELSE Append(records, rec)
  /\ fi' = fi + 1
  /\ UNCHANGED <<docs, pc, roots, ri, stack, visited, events, pendingTree, commits, lastRepo>>
  /\ UNCHANGED v1vars
  /\ UNCHANGED others
  /\ UNCHANGED repovars

\* main, line 326
V3ConfigBuild ==
  /\ pc = "parse"
  /\ fi > Len(docs)
  /\ LET g == buildGraphWith(config, records) IN
     /\ records' = g.records
     /\ roots' = g.roots
  /\ pc' = "walk"
  /\ ri' = 1
  /\ UNCHANGED <<docs, fi, stack, visited, events, pendingTree, commits, lastRepo>>
  /\ UNCHANGED v1vars
  /\ UNCHANGED others
  /\ UNCHANGED repovars

NextV3Config ==
  \/ V3ConfigParseFile
  \/ V3ConfigBuild
  \/ V3WalkRoot
  \/ V3Recurse
  \/ V3Return
  \/ V3SaveCheckpoint
  \/ V3FinalFlush

SpecV3Config == InitV3Config /\ [][NextV3Config]_vars

\* the allow-set is empty, or the table has no entry for the root placetype
ConfigError == DOMAIN config = {} \/ "country" \notin DOMAIN config

MaxBatchInner == 3
MaxBatchLeaves == 130

BatchPath(k) == JoinPath(ROOT, Digits(k))

InitBatch ==
  /\ docs = <<>>
  /\ pc = "node"
  /\ fi \in 0..MaxBatchInner
  /\ records = <<>>
  /\ roots = <<>>
  /\ ri = 1
  /\ stack = <<>>
  /\ visited = {}
  /\ events = <<>>
  /\ pendingTree = <<>>
  /\ commits = <<>>
  /\ lastRepo = Null
  /\ V1Unused
  /\ OthersUnused
  /\ ReposUnused

BatchApply(b) ==
  /\ pendingTree' = b.pending
  /\ commits' = b.commits
  /\ UNCHANGED <<docs, fi, records, roots, stack, visited, events, lastRepo>>
  /\ UNCHANGED v1vars
  /\ UNCHANGED others
  /\ UNCHANGED repovars

\* createTree, lines 282-291, for a node with children: addFolderNode(path)
\* returns and the loop over the children starts.  fi is the number of such
\* nodes on the chain.
BatchInnerNode ==
  /\ pc = "node"
  /\ ri <= fi
  /\ BatchApply(addFolderNode([pending |-> pendingTree, commits |-> commits],
                              BatchPath(ri)))
  /\ ri' = ri + 1
  /\ pc' = "node"

\* createTree, line 282, for a leaf: addFolderNode(path) returns
BatchLeafFolder ==
  /\ pc = "node"
  /\ ri > fi
  /\ ri <= fi + MaxBatchLeaves
  /\ BatchApply(addFolderNode([pending |-> pendingTree, commits |-> commits],
                              BatchPath(ri)))
  /\ ri' = ri
  /\ pc' = "leaf"

\* createTree, lines 284-286, for a leaf: addLeafFiles(path) returns
BatchLeafFiles ==
  /\ pc = "leaf"
  /\ BatchApply(addLeafFiles([pending |-> pendingTree, commits |-> commits],
                             BatchPath(ri)))
  /\ ri' = ri + 1
  /\ pc' = "node"

NextBatch ==
  \/ BatchInnerNode
  \/ BatchLeafFolder
  \/ BatchLeafFiles

SpecBatch == InitBatch /\ [][NextBatch]_vars

C18_CheckpointCommitted == IsStr(lastRepo) => pendingTree = <<>>

\* C19: at most one githubPut body is executing at any time: between a
\* write's sha lookup and the return of its put no other write has started.
C19_SerializedWrites == Cardinality(Running(ghQueue)) <= 1

\* C19: sibling subtrees are recursed concurrently and one task's write is
\* between its sha lookup and its put while another task's write is queued.
C19_Witness ==
  /\ pc = "walk"
  /\ mstate.concurrency > 1
  /\ \E j, k \in 1..Len(ghQueue) :
       /\ ghQueue[j].phase = "put"
       /\ ghQueue[k].phase = "queued"
       /\ ghQueue[j].task # ghQueue[k].task
       /\ ghQueue[j].task # 0
       /\ ghQueue[k].task # 0

\* the number of times index i was passed to the handler
TimesPassed(i) == Cardinality({k \in 1..Len(events) : events[k] = i})

\* C20: runParallel passes no index twice, has at most `concurrency` handler
\* calls in flight, resolves only when completed = total, and when the run
\* has ended every index has been passed to the handler exactly once.
C20_EveryIndexOnce ==
  /\ \A i \in 0..(Len(docs) - 1) : TimesPassed(i) <= 1
  /\ Len(events) - completed <= Len(workers)
  /\ pc = "done" => completed = Len(docs)
  /\ pc \in {"done", "exit"} => \A i \in 0..(Len(docs) - 1) : TimesPassed(i) = 1

(***************************************************************************)
(* The script of part_001 as a whole (SpecV3Script).  The file declares    *)
(* createTree twice at its top level: at line 101 (the Git Trees API call) *)
(* and at line 276 (the recursive walk).  The file is an ES module (its    *)
(* imports, lines 27-29), where a second top-level declaration of a name   *)
(* is an early error: the module is rejected when it is loaded and main    *)
(* never starts (V3SyntaxError).  Loaded with the declaration rules of a    *)
(* script, the declaration of line 276 replaces that of line 101, main     *)
(* runs, and createTree(pendingTree) of line 142 is the walk called on the *)
(* pending array (V3ScriptFlush).  The model takes either outcome.         *)
(* SpecV3 is the script with line 142 calling the function of line 101.    *)
(* A walk of MaxDocs records stays below BATCH_LIMIT, so the only flush of *)
(* SpecV3Script is the final one.                                          *)
(***************************************************************************)

\* the module is rejected at load: Identifier 'createTree' has already been
\* declared (lines 101 and 276)
V3SyntaxError ==
  /\ pc = "parse"
  /\ fi = 1
  /\ records = <<>>
  /\ pc' = "exit"
  /\ UNCHANGED <<docs, fi, records, roots, ri, stack, visited, events, pendingTree,
                 commits, lastRepo>>
  /\ UNCHANGED v1vars
  /\ UNCHANGED others
  /\ UNCHANGED repovars

\* createTree(node, basePath, visited = new Set()) of line 276 called as
\* createTree(pendingTree) by flushBatch, line 142: node is the pending array,
\* so node.id and node.name are undefined and basePath is undefined; lines
\* 277-282 push `undefined/unnamed/.keep` onto the array.  When the array has
\* then BATCH_LIMIT items addFolderNode calls flushBatch again ("again");
\* otherwise node.children.length of line 284 throws a TypeError ("threw").
flushBatchWalk(b) ==
  IF Len(b.pending) = 0 THEN [pending |-> b.pending, commits |-> b.commits,
                              out |-> "returned"]
  ELSE LET path == JoinPath(JsString(Undefined), sanitizeV3(Undefined))
           pending == Append(b.pending, [path |-> path, file |-> ".keep"])
       IN [pending |-> pending, commits |-> b.commits,
           out |-> IF Len(pending) >= BATCH_LIMIT THEN "again" ELSE "threw"]

\* main, line 338, with createTree the declaration of line 276: flushBatch
\* returns on an empty batch and main completes; or the walk throws, main
\* rejects and the process ends on the unhandled rejection; or flushBatch is
\* entered again
V3ScriptFlush ==
  /\ pc = "flush"
  /\ LET b == flushBatchWalk([pending |-> pendingTree, commits |-> commits]) IN
     /\ pendingTree' = b.pending
     /\ commits' = b.commits
     /\ pc' = CASE b.out = "returned" -> "done"
                [] b.out = "threw" -> "exit"
                [] OTHER -> "flush"
  /\ UNCHANGED <<docs, fi, records, roots, ri, stack, visited, events, lastRepo>>
  /\ UNCHANGED v1vars
  /\ UNCHANGED others
  /\ UNCHANGED repovars

NextV3Script ==
  \/ V3SyntaxError
  \/ V3ParseFile
  \/ V3Build
  \/ V3WalkRoot
  \/ V3Recurse
  \/ V3Return
  \/ V3SaveCheckpoint
  \/ V3ScriptFlush

SpecV3Script == InitV3 /\ [][NextV3Script]_vars

\* the items the calls of addFolderNode and addLeafFiles pushed, in order
RECURSIVE PushedItems(_)
PushedItems(es) ==
  IF es = <<>> THEN <<>>
  ELSE PushedItems(SubSeq(es, 1, Len(es) - 1)) \o
       (IF es[Len(es)].kind = "folder"
        THEN <<[path |-> es[Len(es)].path, file |-> ".keep"]>>
        ELSE <<[path |-> es[Len(es)].path, file |-> "buyers.json"],
               [path |-> es[Len(es)].path, file |-> "properties.json"],
               [path |-> es[Len(es)].path, file |-> "metadata.json"]>>)

\* the items of the commits, in order
RECURSIVE CommittedItems(_)
CommittedItems(cs) ==
  IF cs = <<>> THEN <<>>
  ELSE CommittedItems(SubSeq(cs, 1, Len(cs) - 1)) \o cs[Len(cs)]

\* C21: the run does not abort; no commit is empty; and when main has
\* completed every item addFolderNode and addLeafFiles pushed is in exactly
\* one commit and the pending batch is empty.
C21_BatchComplete ==
  /\ pc # "exit"
  /\ \A c \in 1..Len(commits) : commits[c] # <<>>
  /\ pc = "done" => /\ CommittedItems(commits) = PushedItems(events)
                    /\ pendingTree = <<>>

(***************************************************************************)
(* main of part_001 over several repositories (SpecV3Resume): the loop of  *)
(* lines 307-335 with its skip flag.  What main does with a repository it  *)
(* does not skip is the subject of SpecV3; here it is one step that        *)
(* records the repository in events and saves the checkpoint.  docs is the *)
(* listing listAdminRepos returned, lastRepo the checkpoint file.  A       *)
(* repository name is the pair of its prefix and the rest of the name.     *)
(***************************************************************************)
MaxRepos == 3

AdminPrefix == "whosonfirst-data-admin-"
Repo(prefix, code) == [name |-> <<prefix, code>>]
AdminRepoPool == {Repo(AdminPrefix, "aa"), Repo(AdminPrefix, "bb"), Repo(AdminPrefix, "cc")}
RepoPool == AdminRepoPool \cup {Repo("whosonfirst-data-", "venue-aa")}

\* r.name.startsWith("whosonfirst-data-admin-")
IsAdminRepo(r) == r.name[1] = AdminPrefix

\* repos.filter(...), keeping the order of the listing
RECURSIVE FilterAdmin(_)
FilterAdmin(rs) ==
  IF rs = <<>> THEN <<>>
  ELSE LET rest == FilterAdmin(SubSeq(rs, 1, Len(rs) - 1)) IN
       IF IsAdminRepo(rs[Len(rs)]) THEN Append(rest, rs[Len(rs)]) ELSE rest

\* the listings: every repository of the organisation is listed once
Listings ==
  {l \in SeqsUpTo(RepoPool, MaxRepos) : \A i, j \in 1..Len(l) : l[i] = l[j] => i = j}

\* the checkpoint file of an earlier run: absent (loadCheckpoint then gives
\* lastRepo null), without a lastRepo, or naming the last repository that
\* run finished, which the listing may no longer hold
InitV3Resume ==
  /\ docs \in Listings
  /\ lastRepo \in {Null, Undefined} \cup {Str(r.name) : r \in AdminRepoPool}
  /\ pc = "load"
  /\ fi = 1
  /\ records = <<>>
  /\ roots = <<>>
  /\ ri = 1
  /\ stack = <<>>
  /\ visited = {}
  /\ events = <<>>
  /\ pendingTree = <<>>
  /\ commits = <<>>
  /\ V1Unused
  /\ OthersUnused
  /\ ReposUnused

ResumeUnchanged ==
  /\ UNCHANGED <<docs, fi, records, roots, stack, visited, pendingTree, commits, progress,
                 complete>>
  /\ UNCHANGED v1vars
  /\ UNCHANGED others

\* main, lines 300-305
V3ResumeLoad ==
  /\ pc = "load"
  /\ checkpoint' = lastRepo
  /\ adminRepos' = FilterAdmin(docs)
  /\ skip' = ~(IsNull(lastRepo) \/ IsUndef(lastRepo))
  /\ pc' = "loop"
  /\ UNCHANGED <<ri, events, lastRepo>>
  /\ ResumeUnchanged

\* main, lines 307-311: an iteration with skip set
V3ResumeSkip ==
  /\ pc = "loop"
  /\ ri <= Len(adminRepos)
  /\ skip
  /\ skip' = (Str(adminRepos[ri].name) # checkpoint)
  /\ ri' = ri + 1
  /\ UNCHANGED <<pc, events, lastRepo, adminRepos, checkpoint>>
  /\ ResumeUnchanged

\* main, lines 313-334: an iteration that processes the repository and saves
\* the checkpoint
V3ResumeProcess ==
  /\ pc = "loop"
  /\ ri <= Len(adminRepos)
  /\ ~skip
  /\ events' = Append(events, adminRepos[ri].name)
  /\ lastRepo' = Str(adminRepos[ri].name)
  /\ ri' = ri + 1
  /\ UNCHANGED <<pc, adminRepos, checkpoint, skip>>
  /\ ResumeUnchanged

\* main, lines 337-340
V3ResumeEnd ==
  /\ pc = "loop"
  /\ ri > Len(adminRepos)
  /\ pc' = "done"
  /\ UNCHANGED <<ri, events, lastRepo, adminRepos, checkpoint, skip>>
  /\ ResumeUnchanged

NextV3Resume ==
  \/ V3ResumeLoad
  \/ V3ResumeSkip
  \/ V3ResumeProcess
  \/ V3ResumeEnd

SpecV3Resume == InitV3Resume /\ [][NextV3Resume]_vars

\* the position in the listing of the repository the loaded checkpoint
\* names, 0 when it names none of the listing
CheckpointPos ==
  IF \E i \in 1..Len(adminRepos) : Str(adminRepos[i].name) = checkpoint
  THEN CHOOSE i \in 1..Len(adminRepos) : Str(adminRepos[i].name) = checkpoint
  ELSE 0

\* C22: when the resumed run has ended, the repositories it skipped are
\* exactly lastRepo and those before it in the listing; when lastRepo is not
\* in the listing none is skipped.
C22_ResumeSkipsCompleted ==
  pc = "done" =>
    \A i \in 1..Len(adminRepos) :
      (\E e \in 1..Len(events) : events[e] = adminRepos[i].name) <=> i > CheckpointPos

(***************************************************************************)
(* main of wof_create_folders.js (V4) over several repositories            *)
(* (SpecV4Resume): the loop of lines 215-222 from progress.repo_index,     *)
(* processRepo with its writes of the progress file, a repository whose     *)
(* processing throws (fetchRepoTree, line 175, or the folder creation,     *)
(* lines 195-199: a request fails, a name is null) and is caught at line   *)
(* 218, and the run being stopped at any point and started again.  What    *)
(* processRepo creates for one repository is the subject of SpecV4; here a *)
(* repository has a number of files and its tree is complete when          *)
(* processRepo returned.  ri and fi are the indices of the code, from 0;   *)
(* events holds the indices the current run passed to processRepo.  main   *)
(* of part_002 (V6), lines 183-190, has the same loop and the same writes  *)
(* (line 149).                                                             *)
(***************************************************************************)
MaxRepoFiles == 2
MaxRuns == 2

\* const ALLOWED = new Set([...]), lines 24-28
AllowedCodes ==
  {"IN", "PK", "NP", "BD", "TH", "LK", "VN", "KH", "LA", "AU", "JP", "RU", "GB", "MX", "CA",
   "BR", "PE", "CO", "AR", "CL", "IT", "FR", "DE", "BE", "NL", "ES", "GR", "EG", "KE", "TZ",
   "ZA", "SA", "AE", "QA", "KW", "BH", "OM", "CN", "TW", "KR", "KP", "NZ", "ID", "MY", "SG", "PH"}

\* the repositories of a listing: India, Pakistan and the United States
V4RepoPool == {Repo(AdminPrefix, "in"), Repo(AdminPrefix, "pk"), Repo(AdminPrefix, "us")}

\* toUpperCase on the codes of the pool
ToUpperCase(code) ==
  CASE code = "in" -> "IN" [] code = "pk" -> "PK" [] code = "us" -> "US" [] OTHER -> code

\* name.replace("whosonfirst-data-admin-", "").toUpperCase(), line 169
CodeOf(r) == ToUpperCase(IF r.name[1] = AdminPrefix THEN r.name[2] ELSE r.name[1] \o r.name[2])

\* ALLOWED.has(code), line 171
IsAllowedRepo(r) == CodeOf(r) \in AllowedCodes

V4Listings ==
  {l \in SeqsUpTo(V4RepoPool, MaxRepos) : \A i, j \in 1..Len(l) : l[i] = l[j] => i = j}

\* a first run: no progress file, progress = { repo_index: 0, file_index: 0 }
\* (line 40); records[i] is the number of .geojson files of repository i
InitV4Resume ==
  /\ docs \in V4Listings
  /\ records \in UNION {[1..n -> 0..MaxRepoFiles] : n \in 0..MaxRepos}
  /\ Len(records) = Len(docs)
  /\ pc = "load"
  /\ fi = 0
  /\ roots = <<>>
  /\ ri = 0
  /\ stack = <<>>
  /\ visited = {}
  /\ events = <<>>
  /\ pendingTree = <<>>
  /\ commits = <<>>
  /\ lastRepo = Null
  /\ V1Unused
  /\ OthersUnused
  /\ ReposUnused

V4ResumeUnchanged ==
  /\ UNCHANGED <<docs, records, roots, stack, visited, pendingTree, commits, lastRepo,
                 checkpoint, skip>>
  /\ UNCHANGED others

\* main, lines 212-215: the listing, and the loop starts at progress.repo_index
V4ResumeLoad ==
  /\ pc = "load"
  /\ adminRepos' = FilterAdmin(docs)
  /\ ri' = progress.repo_index
  /\ pc' = "loop"
  /\ UNCHANGED <<fi, events, progress, complete>>
  /\ UNCHANGED v1vars
  /\ V4ResumeUnchanged

\* processRepo, lines 168-171: a repository that is not allowed
V4RepoSkipped ==
  /\ pc = "loop"
  /\ ri < Len(adminRepos)
  /\ ~IsAllowedRepo(adminRepos[ri + 1])
  /\ events' = Append(events, ri)
  /\ ri' = ri + 1
  /\ UNCHANGED <<pc, fi, adminRepos, progress, complete>>
  /\ UNCHANGED v1vars
  /\ V4ResumeUnchanged

\* processRepo, lines 173-176: fetchRepoTree returns the files
V4RepoFetched ==
  /\ pc = "loop"
  /\ ri < Len(adminRepos)
  /\ IsAllowedRepo(adminRepos[ri + 1])
  /\ events' = Append(events, ri)
  /\ fi' = 0
  /\ pc' = "files"
  /\ UNCHANGED <<ri, adminRepos, progress, complete>>
  /\ UNCHANGED v1vars
  /\ V4ResumeUnchanged

\* processRepo, line 175, and main, lines 218-221: fetchRepoTree throws and
\* main catches
V4RepoFetchThrows ==
  /\ pc = "loop"
  /\ ri < Len(adminRepos)
  /\ IsAllowedRepo(adminRepos[ri + 1])
  /\ events' = Append(events, ri)
  /\ ri' = ri + 1
  /\ UNCHANGED <<pc, fi, adminRepos, progress, complete>>
  /\ UNCHANGED v1vars
  /\ V4ResumeUnchanged

\* processRepo, lines 178-190: one file; the progress file is written first
V4RepoFile ==
  /\ pc = "files"
  /\ fi < records[ri + 1]
  /\ progress' = [repo_index |-> ri, file_index |-> fi]
  /\ fi' = fi + 1
  /\ UNCHANGED <<pc, ri, events, adminRepos, complete>>
  /\ UNCHANGED v1vars
  /\ V4ResumeUnchanged

\* processRepo, lines 192-204: nothing parsed and processRepo returns, or the
\* tree is created, file_index is reset and the progress file written
V4RepoDone ==
  /\ pc = "files"
  /\ fi >= records[ri + 1]
  /\ progress' = IF records[ri + 1] = 0 THEN progress
                 ELSE [progress EXCEPT !.file_index = 0]
  /\ complete' = complete \cup {ri}
  /\ ri' = ri + 1
  /\ pc' = "loop"
  /\ UNCHANGED <<fi, events, adminRepos>>
  /\ UNCHANGED v1vars
  /\ V4ResumeUnchanged

\* processRepo, lines 196-200, and main, lines 218-221: the folder creation
\* throws and main catches
V4RepoTreeThrows ==
  /\ pc = "files"
  /\ fi >= records[ri + 1]
  /\ records[ri + 1] > 0
  /\ ri' = ri + 1
  /\ pc' = "loop"
  /\ UNCHANGED <<fi, events, adminRepos, progress, complete>>
  /\ UNCHANGED v1vars
  /\ V4ResumeUnchanged

\* main, lines 222-225
V4ResumeEnd ==
  /\ pc = "loop"
  /\ ri >= Len(adminRepos)
  /\ pc' = "done"
  /\ UNCHANGED <<ri, fi, events, adminRepos, progress, complete>>
  /\ UNCHANGED v1vars
  /\ V4ResumeUnchanged

\* the run is stopped, or has ended, and the script is started again: lines
\* 40-44 read the progress file; the folders created so far remain
V4Restart ==
  /\ pc # "load"
  /\ run < MaxRuns
  /\ run' = run + 1
  /\ pc' = "load"
  /\ ri' = 0
  /\ fi' = 0
  /\ events' = <<>>
  /\ adminRepos' = <<>>
  /\ UNCHANGED <<progress, complete, tasks, ghQueue, mstate, firstEvents>>
  /\ V4ResumeUnchanged

NextV4Resume ==
  \/ V4ResumeLoad
  \/ V4RepoSkipped
  \/ V4RepoFetched
  \/ V4RepoFetchThrows
  \/ V4RepoFile
  \/ V4RepoDone
  \/ V4RepoTreeThrows
  \/ V4ResumeEnd
  \/ V4Restart

SpecV4Resume == InitV4Resume /\ [][NextV4Resume]_vars

\* the indices of the allowed repositories whose tree is not complete
Incomplete ==
  {i \in 0..(Len(adminRepos) - 1) : IsAllowedRepo(adminRepos[i + 1]) /\ i \notin complete}

\* C23: the recorded repo_index never exceeds the index of the earliest
\* allowed repository whose tree is not complete, and when a restarted run
\* has ended every such repository was processed again by it.
C23_ProgressResume ==
  /\ pc # "load" => \A i \in Incomplete : progress.repo_index <= i
  /\ (pc = "done" /\ run > 1) =>
       \A i \in Incomplete : \E e \in 1..Len(events) : events[e] = i

(***************************************************************************)
(* The script of part_001 on repositories whose regions may share a name   *)
(* (SpecV3Siblings): main as in SpecV3, on files drawn from SiblingPool.   *)
(***************************************************************************)
\* a second region of country 1 with the name of region 2
dRegionTwin == Feature(Num(14), Str(North), "region", Num(1))

SiblingPool == {dCountry, dRegion, dRegionTwin, dLocality, dLocality2}

InitV3Siblings ==
  /\ docs \in SeqsUpTo(SiblingPool, MaxDocs)
  /\ pc = "parse"
  /\ fi = 1
  /\ records = <<>>
  /\ roots = <<>>
  /\ ri = 1
  /\ stack = <<>>
  /\ visited = {}
  /\ events = <<>>
  /\ pendingTree = <<>>
  /\ commits = <<>>
  /\ lastRepo = Null
  /\ V1Unused
  /\ OthersUnused
  /\ ReposUnused

SpecV3Siblings == InitV3Siblings /\ [][NextV3]_vars

\* nodes n1 and n2 are children of one parent
Siblings(n1, n2) ==
  \E p \in 1..Len(records) :
    \E j, k \in 1..Len(records[p].children) :
      records[p].children[j] = n1 /\ records[p].children[k] = n2

\* C24: two nodes with different ids that are children of the same parent
\* never get their folder events at the same path.
C24_PathUnique ==
  \A e1, e2 \in 1..Len(events) :
    (/\ events[e1].kind = "folder"
     /\ events[e2].kind = "folder"
     /\ records[events[e1].node].id # records[events[e2].node].id
     /\ Siblings(events[e1].node, events[e2].node))
    => events[e1].path # events[e2].path

=============================================================================
